---- MODULE Spec2Model ----
(***************************************************************************)
(* Model of beartype's type-checking function factories                    *)
(* (beartype/_check/checkmake.py): the memoized make_func_tester() and     *)
(* make_func_raiser() factories, the _make_func_checker() pipeline they    *)
(* defer to, the code factories generating the bodies of testers and       *)
(* raisers, and the execution of the generated checkers on values.         *)
(***************************************************************************)
EXTENDS Integers, Sequences, FiniteSets, TLC

\* ---------------------------------------------------------- record fields
\* Names of the fields of the records below, in the order every record
\* lists them.
FieldNames ==
    DOMAIN [arg_names |-> 0, args |-> 0, arms |-> 0, at |-> 0,
            bytecode_path |-> 0, callee |-> 0, check_args |-> 0,
            checker |-> 0, claw_is_pep526 |-> 0, cls_stack |-> 0, code |-> 0,
            code_expr |-> 0, code_param |-> 0, code_return |-> 0,
            code_violation |-> 0, conf |-> 0, counter |-> 0,
            decorators |-> 0, depth |-> 0, evaluated |-> 0, exc |-> 0,
            factory |-> 0, func |-> 0, func_code |-> 0, func_scope |-> 0,
            get_repr |-> 0, get_violation |-> 0, hint |-> 0,
            hint_refs_type_basename |-> 0, id |-> 0, is_conf |-> 0,
            is_debug |-> 0, is_param |-> 0, is_valid |-> 0,
            is_valid_code |-> 0, is_valid_code_locals |-> 0,
            is_valid_remaining_arg_names |-> 0,
            is_valid_target_arg_name |-> 0, is_violation_door_warn |-> 0,
            is_violation_param_warn |-> 0, is_violation_return_warn |-> 0,
            items |-> 0, key |-> 0, keywords |-> 0, kind |-> 0, kwargs |-> 0,
            module |-> 0, msg |-> 0, name |-> 0, operands |-> 0,
            optimization |-> 0, optimize |-> 0, outcome |-> 0, outside |-> 0,
            overlapped |-> 0, path |-> 0, pith |-> 0, raised |-> 0,
            random_int |-> 0, result |-> 0, ret |-> 0, scope |-> 0,
            seen |-> 0, simple |-> 0, snip |-> 0, status |-> 0,
            strategy |-> 0, type |-> 0, typed |-> 0, used |-> 0,
            validator |-> 0, value |-> 0, verdict |-> 0, warned |-> 0,
            warnings |-> 0]

\* ------------------------------------------------------------------ bounds
\* Number of factory requests made in one behaviour.
MaxRequests == 2
\* Width in bits of the per-call random integer drawn by a checker.
RandBits == 1
\* Number of parameters of a callable subscripting IsArgumentative.
MaxArgs == 3
MaxNodes == 3

\* --------------------------------------------------------------- constants
Threads == {"t1", "t2"}

EXCEPTION_PLACEHOLDER == "$%ROOT_PITH_LABEL/~"
exception_prefix == "die_if_unbearable() or is_bearable() "
FUNC_CHECKER_NAME_PREFIX == "__beartype_checker_"

ARG_NAME_CONF == "__beartype_conf"
ARG_NAME_GETRANDBITS == "__beartype_getrandbits"
ARG_NAME_GET_VIOLATION == "__beartype_get_violation"
ARG_NAME_HINT == "__beartype_hint"
ARG_NAME_WARN == "__beartype_warn"

CODE_CHECKER_SIGNATURE == "def {func_name}(obj, ...):"
CODE_TESTER_CHECK_PREFIX == "return "
CODE_RAISER_FUNC_PITH_CHECK_PREFIX == "if not (func pith) "
CODE_RAISER_HINT_OBJECT_CHECK_PREFIX == "if not (hint object) "
CODE_CHECK_EXPR == "{code_expr}"
CODE_GET_FUNC_PITH_VIOLATION == "violation = get_violation(func, conf, pith_name, pith_value...)"
CODE_GET_HINT_OBJECT_VIOLATION == "violation = get_violation(obj, hint, conf...)"
CODE_GET_VIOLATION_CLS_STACK == "cls_stack=__beartype_cls_stack"
CODE_GET_VIOLATION_RANDOM_INT == "random_int=__beartype_random_int"
CODE_RAISE_VIOLATION == "raise violation"
CODE_WARN_VIOLATION == "__beartype_warn(violation)"
CODE_RETURN_TRUE == "return True"

\* ------------------------------------------------------------ hints, confs
\* Raw hints requested from the factories.
HintAny == "typing.Any"
HintTypeAlias == "typing.TypeAlias"
HintInt == "int"
HintListInt == "typing.List[int]"
HintRef == "'MuhClass'"
HintBad == "typing.Unsupported"
HintObject == "object"
\* A union declaring its container member before its plain member.
HintUnion == "typing.Union[typing.List[int], int]"
Hints == {HintAny, HintTypeAlias, HintInt, HintListInt, HintRef, HintBad}

Strategies == {"O1", "On"}

\* A configuration: the three warn-versus-raise switches, the container
\* checking strategy and the debug flag. is_conf distinguishes an object
\* that is not a BeartypeConf at all.
Confs ==
    [is_conf : {TRUE},
     is_debug : {FALSE},
     is_violation_door_warn : BOOLEAN,
     is_violation_param_warn : BOOLEAN,
     is_violation_return_warn : BOOLEAN,
     strategy : Strategies]

BEARTYPE_CONF_DEFAULT ==
    [is_conf |-> TRUE,
     is_debug |-> FALSE,
     is_violation_door_warn |-> FALSE,
     is_violation_param_warn |-> FALSE,
     is_violation_return_warn |-> FALSE,
     strategy |-> "O1"]

ConfDoorWarn == [BEARTYPE_CONF_DEFAULT EXCEPT !.is_violation_door_warn = TRUE]

NotAConf == [BEARTYPE_CONF_DEFAULT EXCEPT !.is_conf = FALSE]

\* Configurations passed to the function factories.
RequestConfs == {BEARTYPE_CONF_DEFAULT, ConfDoorWarn, NotAConf}

Kinds == {"tester", "raiser"}

\* --------------------------------------------------------- messages
\* A message is a sequence of substrings; substituting the placeholder
\* replaces every substring equal to the placeholder.
ReplacePlaceholder(msg, target_str) ==
    [i \in DOMAIN msg |->
        IF msg[i] = EXCEPTION_PLACEHOLDER THEN target_str ELSE msg[i]]

HasPlaceholder(msg) == \E i \in DOMAIN msg : msg[i] = EXCEPTION_PLACEHOLDER

NoExc == [kind |-> "", msg |-> <<>>]

\* reraise_exception_placeholder(): the same kind of exception, its message
\* with each placeholder replaced by the target string.
reraise_exception_placeholder(exception, target_str) ==
    [kind |-> exception.kind,
     msg |-> ReplacePlaceholder(exception.msg, target_str)]

\* reissue_warnings_placeholder(): each recorded warning, in order, with
\* each placeholder replaced by the target string.
reissue_warnings_placeholder(warnings, target_str) ==
    [i \in DOMAIN warnings |->
        [kind |-> warnings[i].kind,
         msg |-> ReplacePlaceholder(warnings[i].msg, target_str)]]

\* ------------------------------------------------------ collaborators
\* die_unless_conf(): the exception raised, or NoExc.
die_unless_conf(conf) ==
    IF conf.is_conf THEN NoExc
    ELSE [kind |-> "BeartypeConfException", msg |-> <<"not configuration">>]

\* sanify_hint_root_statement(): the sanitized hint, the warnings emitted
\* while sanitizing and the exception raised (or NoExc).
sanify_hint_root_statement(hint, conf, prefix) ==
    CASE hint = HintBad ->
            [exc |-> [kind |-> "BeartypeDecorHintNonpepException",
                      msg |-> <<prefix, "type hint unsupported">>],
             hint |-> hint,
             warnings |-> <<>>]
      [] hint = HintTypeAlias ->
            [exc |-> NoExc,
             hint |-> HintObject,
             warnings |-> <<[kind |-> "BeartypeDecorHintPep613DeprecationWarning",
                             msg |-> <<prefix, "PEP 613 type hint deprecated">>]>>]
      [] OTHER -> [exc |-> NoExc, hint |-> hint, warnings |-> <<>>]

is_hint_ignorable(hint) == hint \in {HintAny, HintObject}

\* Members of a hint in the order it declares them: those of a union, or
\* the hint itself.
UnionMembers(hint) ==
    IF hint = HintUnion THEN <<HintListInt, HintInt>> ELSE <<hint>>

IsContainerHint(hint) == hint = HintListInt
IsPlainHint(hint) == ~IsContainerHint(hint)

\* The check expression testing these arms from left to right, the lexical
\* scope it needs, the relative forward references it met and the warnings
\* emitted on the way.
CheckExprOf(hint, conf, arms) ==
    LET has_container == \E i \in DOMAIN arms : IsContainerHint(arms[i]) IN
    [code_expr |-> [args |-> {}, arms |-> arms, hint |-> hint,
                    snip |-> CODE_CHECK_EXPR, strategy |-> conf.strategy],
     func_scope |->
        IF has_container /\ conf.strategy = "O1"
        THEN {ARG_NAME_GETRANDBITS} ELSE {},
     hint_refs_type_basename |->
        IF hint = HintRef THEN <<"MuhClass">> ELSE <<>>,
     warnings |->
        IF has_container
        THEN <<[kind |-> "BeartypeDecorHintPep585DeprecationWarning",
                msg |-> <<EXCEPTION_PLACEHOLDER, "PEP 484 type hint deprecated">>]>>
        ELSE <<>>]

\* Variant testing the members of a union in the order of their declaration.
make_check_expr_unordered(hint, conf, cls_stack) ==
    CheckExprOf(hint, conf, UnionMembers(hint))

\* make_check_expr(): the members of a union are tested plain types first,
\* containers last.
make_check_expr(hint, conf, cls_stack) ==
    CheckExprOf(hint, conf,
                SelectSeq(UnionMembers(hint), IsPlainHint) \o
                SelectSeq(UnionMembers(hint), IsContainerHint))

\* get_hint_pep484585_ref_names_relative_to(): called without a class stack
\* or callable, a relative forward reference cannot be resolved.
get_hint_pep484585_ref_names_relative_to(hint, prefix) ==
    [kind |-> "BeartypeDecorHintForwardRefException",
     msg |-> prefix \o <<"forward reference", hint, "relative">>]

Snip(s) ==
    [args |-> {}, arms |-> <<>>, hint |-> "", snip |-> s, strategy |-> ""]
SnipArgs(s, a) ==
    [args |-> a, arms |-> <<>>, hint |-> "", snip |-> s, strategy |-> ""]


\* ------------------------------------------------------- code factories
\* Tri-state pith boolean: parameter, return, or free-standing object.
IsParams == {"None", "True", "False"}
\* Class stacks: none, or a stack of one decorated class.
ClsStacks == {<<>>, <<"MuhClass">>}

\* Variant reading the return switch for parameters and the parameter
\* switch for returns.
IsViolationWarn_swapped(conf, is_param) ==
    IF is_param = "None" THEN conf.is_violation_door_warn
    ELSE IF is_param = "True" THEN conf.is_violation_return_warn
    ELSE conf.is_violation_param_warn

\* The switch of the configuration read for a call-site kind.
IsViolationWarn(conf, is_param) ==
    IF is_param = "None" THEN conf.is_violation_door_warn
    ELSE IF is_param = "True" THEN conf.is_violation_param_warn
    ELSE conf.is_violation_return_warn

\* Variant ignoring the switches: every violation is raised.
make_code_raiser_violation_raising(conf, func_scope, is_param) ==
    [code_violation |-> Snip(CODE_RAISE_VIOLATION),
     func_scope |-> func_scope \cup {ARG_NAME_CONF}]

make_code_raiser_violation(conf, func_scope, is_param) ==
    IF IsViolationWarn(conf, is_param)
    THEN [code_violation |-> Snip(CODE_WARN_VIOLATION),
          func_scope |-> func_scope \cup {ARG_NAME_CONF, ARG_NAME_WARN}]
    ELSE [code_violation |-> Snip(CODE_RAISE_VIOLATION),
          func_scope |-> func_scope \cup {ARG_NAME_CONF}]

make_code_tester_check(hint, conf) ==
    LET expr == make_check_expr(hint, conf, <<>>) IN
    [func_code |-> <<Snip(CODE_TESTER_CHECK_PREFIX), expr.code_expr>>,
     func_scope |-> expr.func_scope,
     hint_refs_type_basename |-> expr.hint_refs_type_basename,
     warnings |-> expr.warnings]

\* Variant generating no code handling the violation.
make_code_raiser_func_pith_check_unhandled(hint, conf, cls_stack, is_param) ==
    LET expr == make_check_expr(hint, conf, cls_stack) IN
    [func_code |-> <<Snip(CODE_RAISER_FUNC_PITH_CHECK_PREFIX),
                     expr.code_expr,
                     SnipArgs(CODE_GET_FUNC_PITH_VIOLATION, {})>>,
     func_scope |-> expr.func_scope \cup {ARG_NAME_GET_VIOLATION},
     hint_refs_type_basename |-> expr.hint_refs_type_basename,
     warnings |-> expr.warnings]

\* Variant passing the random integer to the violation getter whatever the
\* scope of the check expression holds.
make_code_raiser_func_pith_check_random(hint, conf, cls_stack, is_param) ==
    LET expr == make_check_expr(hint, conf, cls_stack)
        arg_cls_stack ==
            IF cls_stack # <<>> THEN {CODE_GET_VIOLATION_CLS_STACK} ELSE {}
        handle == make_code_raiser_violation(
            conf, expr.func_scope \cup {ARG_NAME_GET_VIOLATION}, is_param)
    IN
    [func_code |-> <<Snip(CODE_RAISER_FUNC_PITH_CHECK_PREFIX),
                     expr.code_expr,
                     SnipArgs(CODE_GET_FUNC_PITH_VIOLATION,
                              arg_cls_stack \cup
                                  {CODE_GET_VIOLATION_RANDOM_INT}),
                     handle.code_violation>>,
     func_scope |-> handle.func_scope,
     hint_refs_type_basename |-> expr.hint_refs_type_basename,
     warnings |-> expr.warnings]

make_code_raiser_func_pith_check(hint, conf, cls_stack, is_param) ==
    LET expr == make_check_expr(hint, conf, cls_stack)
        arg_random_int ==
            IF ARG_NAME_GETRANDBITS \in expr.func_scope
            THEN {CODE_GET_VIOLATION_RANDOM_INT} ELSE {}
        arg_cls_stack ==
            IF cls_stack # <<>> THEN {CODE_GET_VIOLATION_CLS_STACK} ELSE {}
        code_get_violation ==
            SnipArgs(CODE_GET_FUNC_PITH_VIOLATION,
                     arg_cls_stack \cup arg_random_int)
        handle == make_code_raiser_violation(
            conf, expr.func_scope \cup {ARG_NAME_GET_VIOLATION}, is_param)
    IN
    [func_code |-> <<Snip(CODE_RAISER_FUNC_PITH_CHECK_PREFIX),
                     expr.code_expr,
                     code_get_violation,
                     handle.code_violation>>,
     func_scope |-> handle.func_scope,
     hint_refs_type_basename |-> expr.hint_refs_type_basename,
     warnings |-> expr.warnings]

make_code_raiser_func_pep484_noreturn_check(conf) ==
    LET code_get_violation == SnipArgs(CODE_GET_FUNC_PITH_VIOLATION, {})
        handle == make_code_raiser_violation(
            conf, {ARG_NAME_GET_VIOLATION}, "False")
    IN
    [func_code |-> <<code_get_violation, handle.code_violation>>,
     func_scope |-> handle.func_scope,
     hint_refs_type_basename |-> <<>>,
     warnings |-> <<>>]

\* Variant omitting the test of the check expression, so that the violation
\* is got and handled on every call.
make_code_raiser_hint_object_check_untested(hint, conf) ==
    LET expr == make_check_expr(hint, conf, <<>>)
        handle == make_code_raiser_violation(
            conf,
            expr.func_scope \cup {ARG_NAME_GET_VIOLATION, ARG_NAME_HINT},
            "None")
    IN
    [func_code |-> <<SnipArgs(CODE_GET_HINT_OBJECT_VIOLATION, {}),
                     handle.code_violation>>,
     func_scope |-> handle.func_scope,
     hint_refs_type_basename |-> expr.hint_refs_type_basename,
     warnings |-> expr.warnings]

make_code_raiser_hint_object_check(hint, conf) ==
    LET expr == make_check_expr(hint, conf, <<>>)
        arg_random_int ==
            IF ARG_NAME_GETRANDBITS \in expr.func_scope
            THEN {CODE_GET_VIOLATION_RANDOM_INT} ELSE {}
        code_get_violation ==
            SnipArgs(CODE_GET_HINT_OBJECT_VIOLATION, arg_random_int)
        handle == make_code_raiser_violation(
            conf,
            expr.func_scope \cup {ARG_NAME_GET_VIOLATION, ARG_NAME_HINT},
            "None")
    IN
    [func_code |-> <<Snip(CODE_RAISER_HINT_OBJECT_CHECK_PREFIX),
                     expr.code_expr,
                     code_get_violation,
                     handle.code_violation>>,
     func_scope |-> handle.func_scope,
     hint_refs_type_basename |-> expr.hint_refs_type_basename,
     warnings |-> expr.warnings]

\* The code factory a function factory passes to _make_func_checker().
make_code_check(kind, hint, conf) ==
    IF kind = "tester" THEN make_code_tester_check(hint, conf)
    ELSE make_code_raiser_hint_object_check(hint, conf)

\* ---------------------------------------------------- generated checkers
NoChecker == [code |-> <<>>, name |-> <<"", 0>>, scope |-> {}]

\* The singleton returned for every ignorable hint.
func_checker_ignorable ==
    [code |-> <<Snip(CODE_RETURN_TRUE)>>,
     name |-> <<"_func_checker_ignorable", 0>>,
     scope |-> {}]

make_func_signature(func_name, func_scope, code_signature_format, conf) ==
    SnipArgs(code_signature_format, func_scope)

make_func(func_name, func_code, func_locals) ==
    [code |-> func_code, name |-> func_name, scope |-> func_locals]

\* Values the generated checkers are called on: a type and, for a list,
\* the types of its items.
Piths ==
    {[items |-> <<>>, type |-> "int"],
     [items |-> <<>>, type |-> "str"],
     [items |-> <<"int", "int">>, type |-> "list"],
     [items |-> <<"int", "str">>, type |-> "list"],
     [items |-> <<"str">>, type |-> "list"]}

RandomInts == 0 .. (2^RandBits - 1)

\* Variant examining every item of a container under every strategy.
ItemsChecked_all(strategy, pith, random_int) == DOMAIN pith.items

\* Items of a container a check examines: all of them under the "On"
\* strategy, else the one item selected by the random integer of the call.
ItemsChecked(strategy, pith, random_int) ==
    IF strategy = "On" THEN DOMAIN pith.items
    ELSE IF pith.items = <<>> THEN {}
    ELSE {(random_int % Len(pith.items)) + 1}

\* Value of the test of one member hint on a pith, for the random integer
\* drawn by this call.
EvalArm(hint, strategy, pith, random_int) ==
    CASE hint = HintInt -> pith.type = "int"
      [] hint = HintListInt ->
            /\ pith.type = "list"
            /\ \A i \in ItemsChecked(strategy, pith, random_int) :
                  pith.items[i] = "int"
      [] OTHER -> TRUE

\* Value of the check expression compiled from a hint on a pith: the
\* short-circuiting disjunction of the tests of its arms.
EvalExpr(tok, pith, random_int) ==
    \E i \in DOMAIN tok.arms :
        EvalArm(tok.arms[i], tok.strategy, pith, random_int)

\* Arms whose tests run when the check expression is evaluated: those up to
\* the first arm the pith satisfies.
ArmsEvaluated(tok, pith, random_int) ==
    LET sat == {i \in DOMAIN tok.arms :
                   EvalArm(tok.arms[i], tok.strategy, pith, random_int)}
        last == IF sat = {} THEN Len(tok.arms)
                ELSE CHOOSE i \in sat : \A j \in sat : i <= j
    IN SubSeq(tok.arms, 1, last)

NoRun == [evaluated |-> <<>>, get_violation |-> 0, raised |-> 0, ret |-> "",
          warned |-> 0]

\* Execution of the body of a generated checker from snippet i onwards.
RECURSIVE Exec(_, _, _, _, _)
Exec(code, i, pith, random_int, st) ==
    IF i > Len(code) THEN [st EXCEPT !.ret = "None"]
    ELSE
    LET tok == code[i] IN
    CASE tok.snip = CODE_CHECKER_SIGNATURE ->
            Exec(code, i + 1, pith, random_int, st)
      [] tok.snip = CODE_RETURN_TRUE -> [st EXCEPT !.ret = "True"]
      [] tok.snip = CODE_TESTER_CHECK_PREFIX ->
            [st EXCEPT
                !.evaluated = ArmsEvaluated(code[i + 1], pith, random_int),
                !.ret = IF EvalExpr(code[i + 1], pith, random_int)
                        THEN "True" ELSE "False"]
      [] tok.snip \in {CODE_RAISER_FUNC_PITH_CHECK_PREFIX,
                       CODE_RAISER_HINT_OBJECT_CHECK_PREFIX} ->
            IF EvalExpr(code[i + 1], pith, random_int)
            THEN [st EXCEPT
                    !.evaluated =
                        ArmsEvaluated(code[i + 1], pith, random_int),
                    !.ret = "None"]
            ELSE Exec(code, i + 2, pith, random_int,
                      [st EXCEPT !.evaluated =
                          ArmsEvaluated(code[i + 1], pith, random_int)])
      [] tok.snip \in {CODE_GET_FUNC_PITH_VIOLATION,
                       CODE_GET_HINT_OBJECT_VIOLATION} ->
            Exec(code, i + 1, pith, random_int,
                 [st EXCEPT !.get_violation = @ + 1])
      [] tok.snip = CODE_WARN_VIOLATION ->
            Exec(code, i + 1, pith, random_int, [st EXCEPT !.warned = @ + 1])
      [] tok.snip = CODE_RAISE_VIOLATION ->
            [st EXCEPT !.raised = @ + 1, !.ret = "raise"]
      [] OTHER -> Exec(code, i + 1, pith, random_int, st)

RunChecker(code, pith, random_int) == Exec(code, 1, pith, random_int, NoRun)


\* ------------------------------------------------- IsArgumentative[...]
\* Names of the parameters of the callables subscripting the factory.
ArgNames == {"out_list", "in_list", "item", "extra"}

\* Parameter lists: at most MaxArgs distinct names.
ArgLists ==
    {a \in UNION {[1 .. n -> ArgNames] : n \in 0 .. MaxArgs} :
        \A i, j \in DOMAIN a : i # j => a[i] # a[j]}

\* Objects subscripting the factory: pure-Python callables with these
\* parameters, a C-based callable and an object that is not callable.
Testers ==
    {[arg_names |-> a, kind |-> "python"] : a \in ArgLists} \cup
    {[arg_names |-> <<>>, kind |-> "builtin"],
     [arg_names |-> <<>>, kind |-> "object"]}

my_check == [arg_names |-> <<"out_list", "in_list">>, kind |-> "python"]

\* Arguments of a subscription: one object, none, or two.
SubscriptArgs ==
    {<<tester>> : tester \in Testers} \cup {<<>>, <<my_check, my_check>>}

BeartypeValeSubscriptionException ==
    [kind |-> "BeartypeValeSubscriptionException", msg |-> <<"subscription">>]

\* die_unless_func_args_len_flexible_greater_or_equal(): the exception
\* raised, or NoExc.
die_unless_func_args_len_flexible_greater_or_equal(func, len, cls) ==
    IF func.kind = "python" /\ Len(func.arg_names) >= len
    THEN NoExc ELSE cls

\* die_unless_func_args_len_flexible_equal(): the exception raised, or
\* NoExc.
die_unless_func_args_len_flexible_equal(func, len, cls) ==
    IF func.kind = "python" /\ Len(func.arg_names) = len
    THEN NoExc ELSE cls

\* Variant accepting every object.
die_unless_validator_tester_lax(validator_tester) == NoExc

die_unless_validator_tester(validator_tester) ==
    die_unless_func_args_len_flexible_greater_or_equal(
        validator_tester, 1, BeartypeValeSubscriptionException)

die_unless_unary_validator_tester(validator_tester) ==
    die_unless_func_args_len_flexible_equal(
        validator_tester, 1, BeartypeValeSubscriptionException)

\* _die_unless_getitem_args_1(): the exception raised unless the factory
\* is subscripted by exactly one argument, or NoExc.
die_unless_getitem_args_1(args) ==
    IF Len(args) = 1 THEN NoExc ELSE BeartypeValeSubscriptionException

\* get_func_arg_names(): the names of the parameters of a callable.
get_func_arg_names(func) == func.arg_names

\* add_func_scope_attr(): the name the attribute is bound to and the scope
\* with this binding added; a scope is a set of (name, value) pairs.
add_func_scope_attr(attr, func_scope) ==
    [func_scope |-> func_scope \cup {<<"__beartype_object_is_valid", attr>>},
     name |-> "__beartype_object_is_valid"]

ScopeKeys(scope) == {binding[1] : binding \in scope}
ScopeGet(scope, name) ==
    (CHOOSE binding \in scope : binding[1] = name)[2]

\* Variant passing the further arguments in reverse order.
RECURSIVE generate_additional_arg_string_reversed(_)
generate_additional_arg_string_reversed(arg_names) ==
    IF Len(arg_names) = 0 THEN <<>>
    ELSE generate_additional_arg_string_reversed(Tail(arg_names)) \o
         <<", ", arg_names[1]>>

\* Variant passing the first of the further arguments only.
generate_additional_arg_string_first(arg_names) ==
    IF Len(arg_names) = 0 THEN <<>> ELSE <<", ", arg_names[1]>>

\* generate_additional_arg_string(): a string is the sequence of its
\* substrings.
RECURSIVE generate_additional_arg_string(_)
generate_additional_arg_string(arg_names) ==
    IF Len(arg_names) = 0 THEN <<>>
    ELSE IF Len(arg_names) = 1 THEN <<", ", arg_names[1]>>
    ELSE <<", ", arg_names[1]>> \o
         generate_additional_arg_string(Tail(arg_names))

NoTester == [arg_names |-> <<>>, kind |-> ""]
NoValidator ==
    [get_repr |-> <<>>, is_valid |-> NoTester, is_valid_code |-> <<>>,
     is_valid_code_locals |-> {}, is_valid_remaining_arg_names |-> <<>>,
     is_valid_target_arg_name |-> ""]

\* _IsArgumentativeFactory.__getitem__(): the validator returned, or the
\* exception raised.
IsArgumentativeFactory_getitem(args) ==
    IF die_unless_getitem_args_1(args) # NoExc
    THEN [exc |-> die_unless_getitem_args_1(args), validator |-> NoValidator]
    ELSE
    LET is_valid == args[1] IN
    IF die_unless_validator_tester(is_valid) # NoExc
    THEN [exc |-> die_unless_validator_tester(is_valid),
          validator |-> NoValidator]
    ELSE
    LET all_args == get_func_arg_names(is_valid) IN
    IF all_args = <<>>
    THEN [exc |-> [kind |-> "IndexError", msg |-> <<"tuple index out of range">>],
          validator |-> NoValidator]
    ELSE
    LET target_arg == all_args[1]
        remaining_args == Tail(all_args)
        attr == add_func_scope_attr(is_valid, {})
        is_valid_code_header == <<attr.name, "(", "{obj}">>
        is_valid_code_args == generate_additional_arg_string(remaining_args)
        is_valid_code_footer == <<")">>
    IN
    [exc |-> NoExc,
     validator |->
        [get_repr |-> <<"IsArgumentative", "[", "is_valid", "]">>,
         is_valid |-> is_valid,
         is_valid_code |-> is_valid_code_header \o is_valid_code_args \o
                           is_valid_code_footer,
         is_valid_code_locals |-> attr.func_scope,
         is_valid_remaining_arg_names |-> remaining_args,
         is_valid_target_arg_name |-> target_arg]]

\* ------------------------------------------------ decorated callables
\* Callables decorated by beartype: two identity functions whose parameter
\* and return are annotated by the same hint.
DecorFuncs == {"func_a", "func_b"}
DecorHints == {HintInt, HintListInt, HintUnion}
DecorConfs ==
    {BEARTYPE_CONF_DEFAULT, [BEARTYPE_CONF_DEFAULT EXCEPT !.strategy = "On"]}

NoPith == [items |-> <<>>, type |-> ""]
NoDeco == [code_param |-> <<>>, code_return |-> <<>>, conf |-> NotAConf,
           hint |-> ""]

\* Name of the class of the violation the getter creates for a parameter or
\* a return: a string is the sequence of its substrings.
ViolationName(is_param) ==
    IF is_param = "True" THEN <<"Beartype", "CallHintParamViolation">>
    ELSE <<"Beartype", "CallHintReturnViolation">>

\* beartype(func_untyped): the code checking the parameter and the code
\* checking the return of the wrapper.
beartype(hint, conf) ==
    [code_param |->
        make_code_raiser_func_pith_check(hint, conf, <<>>, "True").func_code,
     code_return |->
        make_code_raiser_func_pith_check(hint, conf, <<>>, "False").func_code,
     conf |-> conf,
     hint |-> hint]

\* A call of the wrapper of a decorated identity function: the parameter is
\* checked, the function returns its parameter, the return is checked; one
\* random integer is drawn per call.
WrapperCall(wrapper, pith, random_int) ==
    IF RunChecker(wrapper.code_param, pith, random_int).raised > 0
    THEN [exc |-> ViolationName("True"), value |-> NoPith]
    ELSE IF RunChecker(wrapper.code_return, pith, random_int).raised > 0
    THEN [exc |-> ViolationName("False"), value |-> NoPith]
    ELSE [exc |-> <<>>, value |-> pith]

\* ------------------------------------------------------- module loader
LoaderModules == {"muh_package.muh_module", "muh_package.muh_submodule"}

\* The two functions bound to importlib's cache_from_source.
CacheFunctions == {"cache_from_source_original", "_cache_from_source_beartype"}

\* cache_from_source(): the name of the bytecode file is determined by the
\* path of the source file and the optimization marker, a sequence of
\* substrings.
cache_from_source_original(path, optimization) ==
    [optimization |-> optimization, path |-> path]

\* Values of sys.flags.optimize, the markers passed as the keyword argument
\* optimization, and the keyword arguments of a call of cache_from_source().
OptimizeLevels == {0, 1}
Markers == {<<>>, <<"1">>}
CacheKwargs == {{}} \cup {{<<"optimization", marker>>} : marker \in Markers}

\* kwargs.get(key, default)
KwargsGet(kwargs, key, default) ==
    IF key \in ScopeKeys(kwargs) THEN ScopeGet(kwargs, key) ELSE default

\* Marker of a call that passes none: that of sys.flags.optimize.
LevelMarker(optimize) == IF optimize = 0 THEN <<>> ELSE <<"1">>

\* Variant passing the marker of the caller on unchanged.
cache_from_source_beartype_unmarked(path, kwargs) ==
    cache_from_source_original(path, KwargsGet(kwargs, "optimization", <<>>))

\* _cache_from_source_beartype(*args, **kwargs)
cache_from_source_beartype(path, kwargs) ==
    LET optimization_marker_old == KwargsGet(kwargs, "optimization", <<>>)
    IN cache_from_source_original(
           path, optimization_marker_old \o <<"-beartype">>)

\* A call of the function bound to importlib's cache_from_source.
CallCacheFromSource(function, path, kwargs, optimize) ==
    IF function = "_cache_from_source_beartype"
    THEN cache_from_source_beartype(path, kwargs)
    ELSE cache_from_source_original(
             path, KwargsGet(kwargs, "optimization", LevelMarker(optimize)))

NoPath == [optimization |-> <<>>, path |-> ""]
NoOutside == [bytecode_path |-> NoPath, kwargs |-> {}, optimize |-> 0,
              path |-> "", used |-> ""]
NoLoad == [at |-> "idle", bytecode_path |-> NoPath, module |-> "",
           outside |-> NoOutside, overlapped |-> FALSE, result |-> "none",
           used |-> ""]

\* ------------------------------------------------- node transformer
\* Names imported from beartype.claw._clawmagic.
BEARTYPE_DECORATOR_MODULE_NAME == "BEARTYPE_DECORATOR_MODULE_NAME"
BEARTYPE_RAISER_MODULE_NAME == "BEARTYPE_RAISER_MODULE_NAME"
BEARTYPE_CLAW_STATE_MODULE_NAME == "BEARTYPE_CLAW_STATE_MODULE_NAME"
BEARTYPE_RAISER_TARGET_ATTR_NAME == "BEARTYPE_RAISER_TARGET_ATTR_NAME"

\* Configurations of a transformer and the default configuration.
ClawConfs == [claw_is_pep526 : BOOLEAN, is_debug : BOOLEAN]
CLAW_CONF_DEFAULT == [claw_is_pep526 |-> TRUE, is_debug |-> FALSE]

\* Statements of a module.  A statement holding a body is a class, a
\* function or a block; a string expression, a future import, an annotated
\* assignment and a pass statement hold none.
Containers == {"ClassDef", "FunctionDef", "If"}
NodeVariants ==
    {[kind |-> "Expr", name |-> "Str", simple |-> FALSE, typed |-> FALSE,
      value |-> FALSE],
     [kind |-> "ImportFrom", name |-> "__future__", simple |-> FALSE,
      typed |-> FALSE, value |-> FALSE],
     [kind |-> "Pass", name |-> "", simple |-> FALSE, typed |-> FALSE,
      value |-> FALSE],
     [kind |-> "If", name |-> "", simple |-> FALSE, typed |-> FALSE,
      value |-> FALSE],
     [kind |-> "ClassDef", name |-> "", simple |-> FALSE, typed |-> FALSE,
      value |-> FALSE],
     [kind |-> "FunctionDef", name |-> "", simple |-> FALSE, typed |-> TRUE,
      value |-> FALSE],
     [kind |-> "FunctionDef", name |-> "", simple |-> FALSE, typed |-> FALSE,
      value |-> FALSE],
     [kind |-> "AnnAssign", name |-> "", simple |-> TRUE, typed |-> FALSE,
      value |-> TRUE],
     [kind |-> "AnnAssign", name |-> "", simple |-> TRUE, typed |-> FALSE,
      value |-> FALSE],
     [kind |-> "AnnAssign", name |-> "", simple |-> FALSE, typed |-> FALSE,
      value |-> TRUE]}

\* A tree is the sequence of its statements in the order of the source,
\* each at the depth of its nesting: the statements of the body of the
\* module are at depth 1, and a statement is the child of the nearest
\* statement before it that is one level up.
IsTree(shape) ==
    /\ shape # <<>> => shape[1][2] = 1
    /\ \A i \in DOMAIN shape :
          /\ shape[i][1].name \in {"Str", "__future__"} => shape[i][2] = 1
          /\ i > 1 =>
                /\ shape[i][2] <= shape[i - 1][2] + 1
                /\ shape[i][2] = shape[i - 1][2] + 1 =>
                      shape[i - 1][1].kind \in Containers

TreeShapes ==
    {shape \in UNION {[1 .. n -> NodeVariants \X (1 .. MaxNodes)] :
                         n \in 0 .. MaxNodes} : IsTree(shape)}

\* Nodes of a tree as parsed: undecorated and unvisited, identified by
\* their position in the source.
ParsedBody(shape) ==
    [i \in DOMAIN shape |->
        [args |-> <<>>, decorators |-> 0, depth |-> shape[i][2], id |-> i,
         keywords |-> <<>>, kind |-> shape[i][1].kind,
         name |-> shape[i][1].name, seen |-> <<>>,
         simple |-> shape[i][1].simple, typed |-> shape[i][1].typed,
         value |-> shape[i][1].value]]

\* The module node on the visitation stack, and a node of the body on it.
ModuleNode == [id |-> 0, kind |-> "Module"]
StackNode(node) == [id |-> node.id, kind |-> node.kind]
StackIds(stack) == [i \in DOMAIN stack |-> stack[i].id]

\* make_node_importfrom(): a node importing an attribute of a module.
make_node_importfrom(module_name) ==
    [args |-> <<>>, decorators |-> 0, depth |-> 1, id |-> 0,
     keywords |-> <<>>, kind |-> "ImportFrom", name |-> module_name,
     seen |-> <<>>, simple |-> FALSE, typed |-> FALSE, value |-> FALSE]

\* Whether a child of the module is a docstring or a future import.
IsDocstringOrFuture(node) ==
    \/ node.kind = "Expr" /\ node.name = "Str"
    \/ node.kind = "ImportFrom" /\ node.name = "__future__"

\* Children of the module, in order, as positions of the tree.
ModuleChildren(body) ==
    SelectSeq([i \in DOMAIN body |-> i], LAMBDA i : body[i].depth = 1)

\* The for loop of visit_Module(): the 0-based index of the first child of
\* the module that is neither a docstring nor a future import, the index
\* of the last child when every child is one, -1 when there is no child.
node_import_beartype_attrs_index(body) ==
    LET children == ModuleChildren(body)
        halts == {k \in DOMAIN children :
                     ~IsDocstringOrFuture(body[children[k]])}
    IN IF children = <<>> THEN -1
       ELSE IF halts = {} THEN Len(children) - 1
       ELSE (CHOOSE k \in halts : \A j \in halts : k <= j) - 1

\* node.body[node_import_beartype_attrs_index:0] = (...): the three import
\* nodes are inserted before the child at that index.
insert_imports(body) ==
    LET index == node_import_beartype_attrs_index(body)
        at == IF index >= 0 THEN ModuleChildren(body)[index + 1] ELSE 0
    IN IF index < 0 THEN body
       ELSE SubSeq(body, 1, at - 1) \o
            <<make_node_importfrom(BEARTYPE_DECORATOR_MODULE_NAME),
              make_node_importfrom(BEARTYPE_RAISER_MODULE_NAME),
              make_node_importfrom(BEARTYPE_CLAW_STATE_MODULE_NAME)>> \o
            SubSeq(body, at, Len(body))

\* Position of the first node after the subtree of the node at a position.
NextSibling(body, at) ==
    LET after == {j \in DOMAIN body : j > at /\ body[j].depth <= body[at].depth}
    IN IF after = {} THEN Len(body) + 1
       ELSE CHOOSE j \in after : \A k \in after : j <= k

\* decorate_node(node, conf): one more decorator on the node.
decorate_node(node, conf) == [node EXCEPT !.decorators = @ + 1]

\* Variant taking no function for a method.
IsMethod_never(stack) == FALSE

\* Whether the immediate parent of the function being visited is a class.
IsMethod(stack) == stack # <<>> /\ stack[Len(stack)].kind = "ClassDef"

\* Variant keeping only the node pushed last.
node_stack_append_only(stack, node) == <<StackNode(node)>>

\* self._node_stack_beartype.append(node)
node_stack_append(stack, node) == Append(stack, StackNode(node))

\* Whether visit_AnnAssign() returns the node as is.
IgnoresAnnAssign(conf, node) ==
    ~conf.claw_is_pep526 \/ ~node.simple \/ ~node.value

\* Variant passing the configuration in every call.
node_func_kwargs_always(conf) == <<"conf">>

\* Keyword arguments of the call of the raiser.
node_func_kwargs(conf) ==
    IF conf # CLAW_CONF_DEFAULT THEN <<"conf">> ELSE <<>>

\* Expr(Call(...)): the statement calling the raiser on the target and the
\* annotation of an assignment.
node_func(conf, node) ==
    [args |-> <<<<"target", node.id>>, <<"annotation", node.id>>>>,
     decorators |-> 0, depth |-> node.depth, id |-> 0 - node.id,
     keywords |-> node_func_kwargs(conf), kind |-> "Expr",
     name |-> BEARTYPE_RAISER_TARGET_ATTR_NAME, seen |-> <<>>,
     simple |-> FALSE, typed |-> FALSE, value |-> FALSE]

\* ------------------------------------------------------------------ state
VARIABLES
    pc,                         \* position of each thread in its request
    req,                        \* factory, hint and conf of its request
    hint,                       \* local "hint" of _make_func_checker()
    code_check,                 \* local result of make_code_check()
    func_checker_name,          \* local "func_checker_name"
    warnings_issued,            \* warnings recorded by catch_warnings()
    exc_raised,                 \* exception raised inside the try block
    trace,                      \* steps the request has run, in order
    caller_warnings,            \* warnings that reached the caller
    outcome,                    \* what the request gave its caller
    memo,                       \* memo of the two function factories
    memo_lock,                  \* holder of the guard of each factory's memo
    func_checker_name_counter,  \* next integer of the name uniquifier
    funcs_made,                 \* functions built by make_func(), in order
    nreq,                       \* requests made so far
    history,                    \* finished requests, in order
    gen,                        \* last snippet built by a code factory
    run,                        \* last execution of a generated checker
    vale,                       \* last subscription of a validator factory
    vcall,                      \* last call checked by a validator
    deco,                       \* wrapper of each decorated callable
    wcall,                      \* last call of a wrapper
    cache_from_source,          \* importlib's cache_from_source attribute
    loader,                     \* get_code() call of each thread
    conf_beartype,              \* configuration of the node transformer
    node_stack_beartype,        \* its visitation stack
    module_body,                \* statements of the module it transforms
    node_cursor,                \* position of the next node to visit
    check_expr_scope            \* scope held by the memo of make_check_expr()

vars == <<pc, req, hint, code_check, func_checker_name, warnings_issued,
          exc_raised, trace, caller_warnings, outcome, memo, memo_lock,
          func_checker_name_counter, funcs_made, nreq, history, gen, run,
          vale, vcall, deco, wcall, cache_from_source, loader,
          conf_beartype, node_stack_beartype, module_body, node_cursor,
          check_expr_scope>>

codeVars == <<gen, run>>
valeVars == <<vale, vcall>>
decoVars == <<deco, wcall>>
clawVars == <<cache_from_source, loader>>
astVars == <<conf_beartype, node_stack_beartype, module_body, node_cursor>>
scopeVars == <<check_expr_scope>>
extVars == <<valeVars, decoVars, clawVars, astVars, scopeVars>>
factoryVars == <<pc, req, hint, code_check, func_checker_name, warnings_issued,
                 exc_raised, trace, caller_warnings, outcome, memo, memo_lock,
                 func_checker_name_counter, funcs_made, nreq, history>>
memoVars == <<memo, memo_lock, func_checker_name_counter, funcs_made>>

\* ------------------------------------------ memo of the expression compiler
\* Hints and configurations of the calls sharing the memo of
\* make_check_expr(): a plain type and a container; a configuration raising
\* every violation and one warning on parameters and free-standing objects
\* while raising on returns.
ScopeHints == {HintInt, HintListInt}
ScopeConfs ==
    {c \in Confs : /\ c.strategy = "O1"
                   /\ ~c.is_violation_return_warn
                   /\ c.is_violation_door_warn = c.is_violation_param_warn}
\* Arguments of make_check_expr(), the key of its memo: the code factories
\* below pass the hint, the configuration and, for a pith of a callable
\* declared outside every class, no class stack.
CheckExprKeys == {<<h, c, <<>>>> : h \in ScopeHints, c \in ScopeConfs}
\* An entry of that memo: empty until the first call with that key, then
\* the one scope dictionary every later call with that key returns.
NoScope == <<>>

NoReq == [conf |-> NotAConf, hint |-> "", kind |-> ""]
NoCode == [func_code |-> <<>>, func_scope |-> {},
           hint_refs_type_basename |-> <<>>, warnings |-> <<>>]
NoName == <<"", 0>>
NoOutcome == [checker |-> NoChecker, exc |-> NoExc, status |-> "none"]
NoGen == [cls_stack |-> <<>>, code |-> NoCode, conf |-> NotAConf,
          factory |-> "", hint |-> "", is_param |-> ""]
NoCall == [pith |-> [items |-> <<>>, type |-> ""], random_int |-> 0,
           result |-> NoRun]
NoVale == [args |-> <<>>, exc |-> NoExc, factory |-> "",
           validator |-> NoValidator]
NoVCall == [args |-> <<>>, callee |-> NoTester, check_args |-> <<>>,
            outcome |-> "", ret |-> "", value |-> "", verdict |-> FALSE]
NoWCall == [func |-> "", pith |-> NoPith, random_int |-> 0,
            result |-> [exc |-> <<>>, value |-> NoPith]]

Init ==
    /\ pc = [t \in Threads |-> "idle"]
    /\ req = [t \in Threads |-> NoReq]
    /\ hint = [t \in Threads |-> ""]
    /\ code_check = [t \in Threads |-> NoCode]
    /\ func_checker_name = [t \in Threads |-> NoName]
    /\ warnings_issued = [t \in Threads |-> <<>>]
    /\ exc_raised = [t \in Threads |-> NoExc]
    /\ trace = [t \in Threads |-> <<>>]
    /\ caller_warnings = [t \in Threads |-> <<>>]
    /\ outcome = [t \in Threads |-> NoOutcome]
    /\ memo = {}
    /\ memo_lock = [k \in Kinds |-> "free"]
    /\ func_checker_name_counter = 0
    /\ funcs_made = <<>>
    /\ nreq = 0
    /\ history = <<>>
    /\ gen = NoGen
    /\ run = NoCall
    /\ vale = NoVale
    /\ vcall = NoVCall
    /\ deco = [f \in DecorFuncs |-> NoDeco]
    /\ wcall = NoWCall
    /\ cache_from_source = "cache_from_source_original"
    /\ loader = [t \in Threads |-> NoLoad]
    /\ conf_beartype = CLAW_CONF_DEFAULT
    /\ node_stack_beartype = <<>>
    /\ module_body = <<>>
    /\ node_cursor = 0
    /\ check_expr_scope = [key \in CheckExprKeys |-> NoScope]

\* ----------------------------------------------------- memoized factories
MemoHas(key) == \E m \in memo : m.key = key
MemoGet(key) == (CHOOSE m \in memo : m.key = key).checker
\* Variant of the memo that stores nothing.
MemoPut_forgetful(key, checker) == memo

MemoPut(key, checker) ==
    {m \in memo : m.key # key} \cup {[checker |-> checker, key |-> key]}

Finish(t, oc) ==
    /\ outcome' = [outcome EXCEPT ![t] = oc]
    /\ history' = Append(history, [checker |-> oc.checker, key |-> req[t],
                                   status |-> oc.status])
    /\ pc' = [pc EXCEPT ![t] = "idle"]

\* A caller calls make_func_tester(hint, conf) or make_func_raiser(hint,
\* conf): the locals of the request of thread t.
Call(t, k, h, c) ==
    /\ pc[t] = "idle"
    /\ nreq < MaxRequests
    /\ memo_lock[k] = "free"
    /\ req' = [req EXCEPT ![t] = [conf |-> c, hint |-> h, kind |-> k]]
    /\ nreq' = nreq + 1
    /\ code_check' = [code_check EXCEPT ![t] = NoCode]
    /\ func_checker_name' = [func_checker_name EXCEPT ![t] = NoName]
    /\ warnings_issued' = [warnings_issued EXCEPT ![t] = <<>>]
    /\ exc_raised' = [exc_raised EXCEPT ![t] = NoExc]
    /\ trace' = [trace EXCEPT ![t] = <<>>]
    /\ caller_warnings' = [caller_warnings EXCEPT ![t] = <<>>]
    /\ UNCHANGED <<func_checker_name_counter, funcs_made, codeVars, extVars>>

\* @callable_cached: under the guard of the factory's memo, a memoized
\* result is returned as is.
MemoHit(t) ==
    \E k \in Kinds, h \in Hints, c \in RequestConfs :
        LET key == [conf |-> c, hint |-> h, kind |-> k] IN
        /\ Call(t, k, h, c)
        /\ MemoHas(key)
        /\ outcome' = [outcome EXCEPT ![t] =
              [checker |-> MemoGet(key), exc |-> NoExc,
               status |-> "returned"]]
        /\ history' = Append(history, [checker |-> MemoGet(key), key |-> key,
                                       status |-> "returned"])
        /\ hint' = [hint EXCEPT ![t] = ""]
        /\ UNCHANGED <<pc, memo, memo_lock>>

\* Variant calling the decorated factory without taking the guard.
MemoMiss_unguarded(t) ==
    \E k \in Kinds, h \in Hints, c \in RequestConfs :
        /\ Call(t, k, h, c)
        /\ ~MemoHas([conf |-> c, hint |-> h, kind |-> k])
        /\ pc' = [pc EXCEPT ![t] = "conf"]
        /\ hint' = [hint EXCEPT ![t] = h]
        /\ outcome' = [outcome EXCEPT ![t] = NoOutcome]
        /\ UNCHANGED <<memo, memo_lock, history>>

\* @callable_cached: otherwise the decorated factory is called, the guard
\* being held until the call is over.
MemoMiss(t) ==
    \E k \in Kinds, h \in Hints, c \in RequestConfs :
        /\ Call(t, k, h, c)
        /\ ~MemoHas([conf |-> c, hint |-> h, kind |-> k])
        /\ memo_lock' = [memo_lock EXCEPT ![k] = t]
        /\ pc' = [pc EXCEPT ![t] = "conf"]
        /\ hint' = [hint EXCEPT ![t] = h]
        /\ outcome' = [outcome EXCEPT ![t] = NoOutcome]
        /\ UNCHANGED <<memo, history>>

\* @callable_cached: the result of the decorated factory is memoized and
\* returned.
MemoInsert(t) ==
    /\ pc[t] = "memoize"
    /\ trace' = [trace EXCEPT ![t] = Append(@, "memoize")]
    /\ memo' = MemoPut(req[t], outcome[t].checker)
    /\ memo_lock' = [memo_lock EXCEPT ![req[t].kind] = "free"]
    /\ history' = Append(history, [checker |-> outcome[t].checker,
                                   key |-> req[t], status |-> "returned"])
    /\ outcome' = [outcome EXCEPT ![t].status = "returned"]
    /\ pc' = [pc EXCEPT ![t] = "idle"]
    /\ UNCHANGED <<req, hint, code_check, func_checker_name, warnings_issued,
                   exc_raised, caller_warnings, func_checker_name_counter,
                   funcs_made, nreq, codeVars, extVars>>

\* ---------------------------------------------------- _make_func_checker()
\* A statement of the try block raises: control passes to the except clause.
Raise(t, step, exception) ==
    /\ trace' = [trace EXCEPT ![t] = Append(@, step)]
    /\ exc_raised' = [exc_raised EXCEPT ![t] = exception]
    /\ pc' = [pc EXCEPT ![t] = "except"]

\* A statement of the try block completes: control passes to the next one.
Pass(t, step, next) ==
    /\ trace' = [trace EXCEPT ![t] = Append(@, step)]
    /\ pc' = [pc EXCEPT ![t] = next]
    /\ UNCHANGED exc_raised

\* The function returns a checker to the memoizing decorator.
Return(t, checker) ==
    outcome' = [outcome EXCEPT ![t] =
        [checker |-> checker, exc |-> NoExc, status |-> "returning"]]

\* Variant that does not validate the configuration.
ValidateConf_unchecked(t) ==
    /\ pc[t] = "conf"
    /\ Pass(t, "conf", "sanify")
    /\ UNCHANGED <<req, hint, code_check, func_checker_name, warnings_issued,
                   caller_warnings, outcome, memoVars, nreq, history,
                   codeVars, extVars>>

\* die_unless_conf(conf)
ValidateConf(t) ==
    /\ pc[t] = "conf"
    /\ IF die_unless_conf(req[t].conf) # NoExc
       THEN Raise(t, "conf", die_unless_conf(req[t].conf))
       ELSE Pass(t, "conf", "sanify")
    /\ UNCHANGED <<req, hint, code_check, func_checker_name, warnings_issued,
                   caller_warnings, outcome, memoVars, nreq, history,
                   codeVars, extVars>>

\* hint = sanify_hint_root_statement(hint, conf, EXCEPTION_PLACEHOLDER)
SanifyHint(t) ==
    /\ pc[t] = "sanify"
    /\ LET sane == sanify_hint_root_statement(
                       hint[t], req[t].conf, EXCEPTION_PLACEHOLDER) IN
       /\ warnings_issued' =
             [warnings_issued EXCEPT ![t] = @ \o sane.warnings]
       /\ IF sane.exc # NoExc
          THEN Raise(t, "sanify", sane.exc) /\ UNCHANGED hint
          ELSE /\ Pass(t, "sanify", "ignorable")
               /\ hint' = [hint EXCEPT ![t] = sane.hint]
    /\ UNCHANGED <<req, code_check, func_checker_name, caller_warnings,
                   outcome, memoVars, nreq, history, codeVars, extVars>>

\* Variant without the early return for ignorable hints.
TestIgnorable_compiling(t) ==
    /\ pc[t] = "ignorable"
    /\ Pass(t, "ignorable", "code")
    /\ UNCHANGED <<req, hint, code_check, func_checker_name, warnings_issued,
                   caller_warnings, outcome, memoVars, nreq, history,
                   codeVars, extVars>>

\* if is_hint_ignorable(hint): return _func_checker_ignorable
TestIgnorable(t) ==
    /\ pc[t] = "ignorable"
    /\ IF is_hint_ignorable(hint[t])
       THEN /\ Pass(t, "ignorable", "memoize")
            /\ Return(t, func_checker_ignorable)
       ELSE /\ Pass(t, "ignorable", "code")
            /\ UNCHANGED outcome
    /\ UNCHANGED <<req, hint, code_check, func_checker_name, warnings_issued,
                   caller_warnings, memoVars, nreq, history, codeVars, extVars>>

\* (code_check, func_scope, hint_refs_type_basename) =
\*     make_code_check(hint, conf)
MakeCodeCheck(t) ==
    /\ pc[t] = "code"
    /\ LET code == make_code_check(req[t].kind, hint[t], req[t].conf) IN
       /\ code_check' = [code_check EXCEPT ![t] = code]
       /\ warnings_issued' =
             [warnings_issued EXCEPT ![t] = @ \o code.warnings]
    /\ Pass(t, "code", "refs")
    /\ UNCHANGED <<req, hint, func_checker_name, caller_warnings, outcome,
                   memoVars, nreq, history, codeVars, extVars>>

\* Variant that does not look at the relative forward references.
CheckForwardRefs_skipped(t) ==
    /\ pc[t] = "refs"
    /\ Pass(t, "refs", "name")
    /\ UNCHANGED <<req, hint, code_check, func_checker_name, warnings_issued,
                   caller_warnings, outcome, memoVars, nreq, history,
                   codeVars, extVars>>

\* if hint_refs_type_basename:
\*     get_hint_pep484585_ref_names_relative_to(...)
CheckForwardRefs(t) ==
    /\ pc[t] = "refs"
    /\ IF code_check[t].hint_refs_type_basename # <<>>
       THEN Raise(t, "refs", get_hint_pep484585_ref_names_relative_to(
                code_check[t].hint_refs_type_basename[1],
                <<EXCEPTION_PLACEHOLDER, "type hint", hint[t]>>))
       ELSE Pass(t, "refs", "name")
    /\ UNCHANGED <<req, hint, code_check, func_checker_name, warnings_issued,
                   caller_warnings, outcome, memoVars, nreq, history,
                   codeVars, extVars>>

\* Variant of the counter that yields without advancing.
CounterNext_stuck(counter) == [counter |-> counter, value |-> counter]

\* next(_func_checker_name_counter): the integer yielded and the counter
\* afterwards.
CounterNext(counter) == [counter |-> counter + 1, value |-> counter]

\* func_checker_name =
\*     f'{FUNC_CHECKER_NAME_PREFIX}{next(_func_checker_name_counter)}'
MakeName(t) ==
    /\ pc[t] = "name"
    /\ LET nxt == CounterNext(func_checker_name_counter) IN
       /\ func_checker_name' = [func_checker_name EXCEPT ![t] =
             <<FUNC_CHECKER_NAME_PREFIX, nxt.value>>]
       /\ func_checker_name_counter' = nxt.counter
    /\ Pass(t, "name", "signature")
    /\ UNCHANGED <<req, hint, code_check, warnings_issued, caller_warnings,
                   outcome, memo, memo_lock, funcs_made, nreq, history,
                   codeVars, extVars>>

\* code_signature = make_func_signature(...)
\* func_checker_code = f'{code_signature}{code_check}'
MakeSignature(t) ==
    /\ pc[t] = "signature"
    /\ code_check' = [code_check EXCEPT ![t].func_code =
          <<make_func_signature(func_checker_name[t],
                                code_check[t].func_scope,
                                CODE_CHECKER_SIGNATURE, req[t].conf)>> \o @]
    /\ Pass(t, "signature", "make_func")
    /\ UNCHANGED <<req, hint, func_checker_name, warnings_issued,
                   caller_warnings, outcome, memoVars, nreq, history,
                   codeVars, extVars>>

\* func_tester = make_func(...), which fails when the generated code does
\* not compile.
MakeFunc(t) ==
    /\ pc[t] = "make_func"
    /\ \/ LET func_tester == make_func(func_checker_name[t],
                                       code_check[t].func_code,
                                       code_check[t].func_scope) IN
          /\ funcs_made' = Append(funcs_made, func_tester)
          /\ Return(t, func_tester)
          /\ Pass(t, "make_func", "reissue")
       \/ /\ Raise(t, "make_func",
                   [kind |-> "_BeartypeUtilCallableException",
                    msg |-> <<"type-checker", "unparseable">>])
          /\ UNCHANGED <<funcs_made, outcome>>
    /\ UNCHANGED <<req, hint, code_check, func_checker_name, warnings_issued,
                   caller_warnings, memo, memo_lock,
                   func_checker_name_counter, nreq, history, codeVars, extVars>>

\* if warnings_issued: reissue_warnings_placeholder(...)
\* return func_tester
ReissueWarnings(t) ==
    /\ pc[t] = "reissue"
    /\ caller_warnings' = [caller_warnings EXCEPT ![t] =
          @ \o reissue_warnings_placeholder(warnings_issued[t],
                                            exception_prefix)]
    /\ pc' = [pc EXCEPT ![t] = "memoize"]
    /\ UNCHANGED <<req, hint, code_check, func_checker_name, warnings_issued,
                   exc_raised, trace, outcome, memoVars, nreq, history,
                   codeVars, extVars>>

\* Variant of the except clause that swallows the exception and returns the
\* trivial checker.
Except_swallowing(t) ==
    /\ pc[t] = "except"
    /\ Finish(t, [checker |-> func_checker_ignorable, exc |-> NoExc,
                  status |-> "returned"])
    /\ memo_lock' = [memo_lock EXCEPT ![req[t].kind] = "free"]
    /\ UNCHANGED <<req, hint, code_check, func_checker_name, warnings_issued,
                   exc_raised, trace, caller_warnings, memo,
                   func_checker_name_counter, funcs_made, nreq, codeVars, extVars>>

\* except Exception as exception: reraise_exception_placeholder(...)
Except(t) ==
    /\ pc[t] = "except"
    /\ Finish(t, [checker |-> NoChecker,
                  exc |-> reraise_exception_placeholder(
                              exc_raised[t], exception_prefix),
                  status |-> "raised"])
    /\ memo_lock' = [memo_lock EXCEPT ![req[t].kind] = "free"]
    /\ UNCHANGED <<req, hint, code_check, func_checker_name, warnings_issued,
                   exc_raised, trace, caller_warnings, memo,
                   func_checker_name_counter, funcs_made, nreq, codeVars, extVars>>

Next ==
    \E t \in Threads :
        \/ MemoHit(t)
        \/ MemoMiss(t)
        \/ ValidateConf(t)
        \/ SanifyHint(t)
        \/ TestIgnorable(t)
        \/ MakeCodeCheck(t)
        \/ CheckForwardRefs(t)
        \/ MakeName(t)
        \/ MakeSignature(t)
        \/ MakeFunc(t)
        \/ ReissueWarnings(t)
        \/ Except(t)
        \/ MemoInsert(t)

Spec == Init /\ [][Next]_vars

\* ---------------------------------------- code factories and checker calls
\* Hints the code factories are passed: sanitized, unignorable hints.
CodeHints == {HintInt, HintListInt, HintRef, HintUnion}

\* The code factory of that name called on these arguments.
CodeOf(factory, h, c, cls_stack, is_param) ==
    CASE factory = "make_code_tester_check" ->
            make_code_tester_check(h, c)
      [] factory = "make_code_raiser_func_pith_check" ->
            make_code_raiser_func_pith_check(h, c, cls_stack, is_param)
      [] factory = "make_code_raiser_func_pep484_noreturn_check" ->
            make_code_raiser_func_pep484_noreturn_check(c)
      [] factory = "make_code_raiser_hint_object_check" ->
            make_code_raiser_hint_object_check(h, c)

Built(factory, h, c, cls_stack, is_param) ==
    /\ gen' = [cls_stack |-> cls_stack,
               code |-> CodeOf(factory, h, c, cls_stack, is_param),
               conf |-> c, factory |-> factory, hint |-> h,
               is_param |-> is_param]
    /\ run' = NoCall
    /\ UNCHANGED <<pc, req, hint, code_check, func_checker_name,
                   warnings_issued, exc_raised, trace, caller_warnings,
                   outcome, memoVars, nreq, history, extVars>>

CallTesterCheck ==
    \E h \in CodeHints, c \in Confs :
        Built("make_code_tester_check", h, c, <<>>, "None")

CallRaiserFuncPithCheck ==
    \E h \in CodeHints, c \in Confs, s \in ClsStacks, p \in IsParams :
        Built("make_code_raiser_func_pith_check", h, c, s, p)

CallRaiserNoreturnCheck ==
    \E c \in Confs :
        Built("make_code_raiser_func_pep484_noreturn_check", "", c, <<>>,
              "False")

CallRaiserHintObjectCheck ==
    \E h \in CodeHints, c \in Confs :
        Built("make_code_raiser_hint_object_check", h, c, <<>>, "None")

\* The function made from the last snippet is called on a pith, drawing the
\* random integer of this call.
CallChecker ==
    /\ gen # NoGen
    /\ \E pith \in Piths, random_int \in RandomInts :
          run' = [pith |-> pith, random_int |-> random_int,
                  result |-> RunChecker(gen.code.func_code, pith, random_int)]
    /\ UNCHANGED <<pc, req, hint, code_check, func_checker_name,
                   warnings_issued, exc_raised, trace, caller_warnings,
                   outcome, memoVars, nreq, history, gen, extVars>>

NextCode ==
    \/ CallTesterCheck
    \/ CallRaiserFuncPithCheck
    \/ CallRaiserNoreturnCheck
    \/ CallRaiserHintObjectCheck
    \/ CallChecker

SpecCode == Init /\ [][NextCode]_vars

\* ----------------------------------- code factories sharing a compiled check
\* The dictionary make_check_expr() returns for this key: the one its memo
\* holds, else the one it builds.
CheckExprScope(key) ==
    IF check_expr_scope[key] = NoScope
    THEN make_check_expr(key[1], key[2], key[3]).func_scope
    ELSE check_expr_scope[key][1]

\* A code factory called with this key: the names it assigns are stored into
\* the dictionary make_check_expr() returned, which is the dictionary the
\* factory returns and the one the memo of make_check_expr() keeps.
BuiltShared(factory, key, is_param) ==
    LET code == CodeOf(factory, key[1], key[2], key[3], is_param)
        func_scope == CheckExprScope(key) \cup code.func_scope
    IN
    /\ check_expr_scope' = [check_expr_scope EXCEPT ![key] = <<func_scope>>]
    /\ gen' = [cls_stack |-> key[3],
               code |-> [code EXCEPT !.func_scope = func_scope],
               conf |-> key[2], factory |-> factory, hint |-> key[1],
               is_param |-> is_param]
    /\ run' = NoCall
    /\ UNCHANGED <<factoryVars, valeVars, decoVars, clawVars, astVars>>

SharedTesterCheck ==
    \E key \in CheckExprKeys :
        BuiltShared("make_code_tester_check", key, "None")

SharedRaiserFuncPithCheck ==
    \E key \in CheckExprKeys, p \in {"True", "False"} :
        BuiltShared("make_code_raiser_func_pith_check", key, p)

SharedRaiserHintObjectCheck ==
    \E key \in CheckExprKeys :
        BuiltShared("make_code_raiser_hint_object_check", key, "None")

NextScope ==
    \/ SharedTesterCheck
    \/ SharedRaiserFuncPithCheck
    \/ SharedRaiserHintObjectCheck

SpecScope == Init /\ [][NextScope]_vars

\* ---------------------------------------- subscriptions of IsArgumentative
\* IsArgumentative[...]
SubscriptIsArgumentative ==
    \E args \in SubscriptArgs :
        /\ vale' = [args |-> args,
                    exc |-> IsArgumentativeFactory_getitem(args).exc,
                    factory |-> "IsArgumentative",
                    validator |->
                        IsArgumentativeFactory_getitem(args).validator]
        /\ vcall' = NoVCall
        /\ UNCHANGED <<factoryVars, codeVars, scopeVars, astVars, decoVars, clawVars>>

\* die_unless_validator_tester(validator_tester)
CheckValidatorTester ==
    \E tester \in Testers :
        /\ vale' = [args |-> <<tester>>,
                    exc |-> die_unless_validator_tester(tester),
                    factory |-> "die_unless_validator_tester",
                    validator |-> NoValidator]
        /\ vcall' = NoVCall
        /\ UNCHANGED <<factoryVars, codeVars, scopeVars, astVars, decoVars, clawVars>>

\* die_unless_unary_validator_tester(validator_tester)
CheckUnaryValidatorTester ==
    \E tester \in Testers :
        /\ vale' = [args |-> <<tester>>,
                    exc |-> die_unless_unary_validator_tester(tester),
                    factory |-> "die_unless_unary_validator_tester",
                    validator |-> NoValidator]
        /\ vcall' = NoVCall
        /\ UNCHANGED <<factoryVars, codeVars, scopeVars, astVars, decoVars, clawVars>>

\* Parameters of the decorated callable whose return the validator
\* annotates, the values they are passed and the values it returns.
FuncParams == <<"in_list", "item">>
ArgValues == {"[1, 2]", "3"}
RetValues == {"[1, 2, 3]"}

ParamValue(args, name) ==
    args[CHOOSE i \in DOMAIN FuncParams : FuncParams[i] = name]

IsOperand(tok) == tok \notin {"(", ")", ", "}

\* The check of the return of a call of the decorated callable: the code
\* of the validator is evaluated with the object placeholder replaced by
\* the returned value and each further name bound to the parameter of the
\* decorated callable of that name; the call returns the value when the
\* check is true and raises a violation otherwise.
ValidatedCall(validator, args, ret, verdict) ==
    LET operands ==
            SelectSeq(Tail(validator.is_valid_code), IsOperand)
    IN
    [args |-> args,
     callee |-> ScopeGet(validator.is_valid_code_locals,
                         validator.is_valid_code[1]),
     check_args |->
        [i \in DOMAIN operands |->
            IF operands[i] = "{obj}" THEN ret
            ELSE ParamValue(args, operands[i])],
     outcome |-> IF verdict THEN "returned" ELSE "raised",
     ret |-> ret,
     value |-> IF verdict THEN ret ELSE "",
     verdict |-> verdict]

\* A call of a callable decorated by beartype whose return is annotated by
\* the last validator, the further parameters of the check being named
\* like parameters of the callable.
CallValidated ==
    /\ vale.factory = "IsArgumentative"
    /\ vale.validator # NoValidator
    /\ \A i \in DOMAIN vale.validator.is_valid_remaining_arg_names :
          \E j \in DOMAIN FuncParams :
              FuncParams[j] = vale.validator.is_valid_remaining_arg_names[i]
    /\ \E args \in [DOMAIN FuncParams -> ArgValues], ret \in RetValues,
          verdict \in BOOLEAN :
          vcall' = ValidatedCall(vale.validator, args, ret, verdict)
    /\ UNCHANGED <<factoryVars, codeVars, scopeVars, astVars, decoVars, clawVars, vale>>

NextVale ==
    \/ SubscriptIsArgumentative
    \/ CheckValidatorTester
    \/ CheckUnaryValidatorTester
    \/ CallValidated

SpecVale == Init /\ [][NextVale]_vars

\* ----------------------------------------- decorated identity functions
\* func_typed = beartype(func_untyped)
Decorate ==
    \E f \in DecorFuncs, h \in DecorHints, c \in DecorConfs :
        /\ deco' = [deco EXCEPT ![f] = beartype(h, c)]
        /\ wcall' = NoWCall
        /\ UNCHANGED <<factoryVars, codeVars, scopeVars, astVars, valeVars, clawVars>>

\* func_typed(pith)
CallWrapper ==
    \E f \in DecorFuncs, pith \in Piths, random_int \in RandomInts :
        /\ deco[f] # NoDeco
        /\ wcall' = [func |-> f, pith |-> pith, random_int |-> random_int,
                     result |-> WrapperCall(deco[f], pith, random_int)]
        /\ UNCHANGED <<factoryVars, codeVars, scopeVars, astVars, valeVars, clawVars, deco>>

NextDecor == Decorate \/ CallWrapper

SpecDecor == Init /\ [][NextDecor]_vars

\* ------------------------------------ BeartypeSourceFileLoader.get_code()
InGetCode(t) == loader[t].at # "idle"

\* _bootstrap_external.cache_from_source = _cache_from_source_beartype
GetCodeEnter(t) ==
    \E m \in LoaderModules :
        /\ ~InGetCode(t)
        /\ \A u \in Threads : InGetCode(u) => loader[u].module # m
        /\ cache_from_source' = "_cache_from_source_beartype"
        /\ loader' =
              [u \in Threads |->
                  IF u = t
                  THEN [at |-> "super", bytecode_path |-> NoPath,
                        module |-> m, outside |-> loader[t].outside,
                        overlapped |-> \E v \in Threads \ {t} : InGetCode(v),
                        result |-> "none", used |-> ""]
                  ELSE IF InGetCode(u)
                  THEN [loader[u] EXCEPT !.overlapped = TRUE]
                  ELSE loader[u]]
        /\ UNCHANGED <<factoryVars, codeVars, scopeVars, astVars, valeVars, decoVars>>

\* super().get_code(): the superclass method calls the function bound to
\* cache_from_source on the path of the module, without a marker.
SuperCacheFromSource(t) ==
    /\ loader[t].at = "super"
    /\ \E optimize \in OptimizeLevels :
          LET kwargs == {} IN
          loader' = [loader EXCEPT ![t] =
              [@ EXCEPT
                  !.at = "compile",
                  !.bytecode_path =
                      CallCacheFromSource(cache_from_source, loader[t].module,
                                          kwargs, optimize),
                  !.used = cache_from_source]]
    /\ UNCHANGED <<factoryVars, codeVars, scopeVars, astVars, valeVars, decoVars,
                   cache_from_source>>

\* super().get_code(): the superclass method returns a code object or
\* raises.
SuperGetCode(t) ==
    /\ loader[t].at = "compile"
    /\ \E result \in {"returned", "raised"} :
          loader' = [loader EXCEPT ![t] =
              [@ EXCEPT !.at = "finally", !.result = result]]
    /\ UNCHANGED <<factoryVars, codeVars, scopeVars, astVars, valeVars, decoVars,
                   cache_from_source>>

\* Variant restoring the original function only when the superclass method
\* returns.
GetCodeFinally_leaky(t) ==
    /\ loader[t].at = "finally"
    /\ cache_from_source' =
          IF loader[t].result = "returned"
          THEN "cache_from_source_original" ELSE cache_from_source
    /\ loader' = [loader EXCEPT ![t] = [@ EXCEPT !.at = "idle"]]
    /\ UNCHANGED <<factoryVars, codeVars, scopeVars, astVars, valeVars, decoVars>>

\* finally: _bootstrap_external.cache_from_source = cache_from_source_original
GetCodeFinally(t) ==
    /\ loader[t].at = "finally"
    /\ cache_from_source' = "cache_from_source_original"
    /\ loader' = [loader EXCEPT ![t] = [@ EXCEPT !.at = "idle"]]
    /\ UNCHANGED <<factoryVars, codeVars, scopeVars, astVars, valeVars, decoVars>>

\* A call of importlib's cache_from_source() by code of a thread that is
\* in no call of get_code(), such as the import of a module no beartype
\* loader loads.
OutsideCacheFromSource(t) ==
    /\ ~InGetCode(t)
    /\ \E path \in LoaderModules, kwargs \in CacheKwargs,
          optimize \in OptimizeLevels :
          loader' = [loader EXCEPT ![t] =
              [@ EXCEPT !.outside =
                  [bytecode_path |->
                      CallCacheFromSource(cache_from_source, path, kwargs,
                                          optimize),
                   kwargs |-> kwargs, optimize |-> optimize, path |-> path,
                   used |-> cache_from_source]]]
    /\ UNCHANGED <<factoryVars, codeVars, scopeVars, astVars, valeVars, decoVars,
                   cache_from_source>>

NextClaw ==
    \E t \in Threads :
        \/ GetCodeEnter(t)
        \/ OutsideCacheFromSource(t)
        \/ SuperCacheFromSource(t)
        \/ SuperGetCode(t)
        \/ GetCodeFinally(t)

SpecClaw == Init /\ [][NextClaw]_vars

\* ------------------------------------------- BeartypeNodeTransformer.visit()
\* Whether the next node is a child of the node on the top of the stack.
AtChild ==
    /\ node_stack_beartype # <<>>
    /\ node_cursor <= Len(module_body)
    /\ module_body[node_cursor].depth = Len(node_stack_beartype)

\* BeartypeNodeTransformer(conf_beartype=conf).visit(module), a transformer
\* being made for one module: visit_Module() inserts the import nodes and
\* calls generic_visit(), which pushes the module node.
VisitModule ==
    /\ node_cursor = 0
    /\ node_stack_beartype = <<>>
    /\ \E shape \in TreeShapes, conf \in ClawConfs :
          /\ conf_beartype' = conf
          /\ module_body' = insert_imports(ParsedBody(shape))
    /\ node_stack_beartype' = <<ModuleNode>>
    /\ node_cursor' = 1
    /\ UNCHANGED <<factoryVars, codeVars, scopeVars, valeVars, decoVars, clawVars>>

\* visit_ClassDef(node): decorates the class and calls generic_visit().
VisitClassDef ==
    /\ AtChild
    /\ module_body[node_cursor].kind = "ClassDef"
    /\ module_body' =
          [module_body EXCEPT ![node_cursor] =
              [decorate_node(@, conf_beartype) EXCEPT
                  !.seen = StackIds(node_stack_beartype)]]
    /\ node_stack_beartype' =
          node_stack_append(node_stack_beartype, module_body[node_cursor])
    /\ node_cursor' = node_cursor + 1
    /\ UNCHANGED <<factoryVars, codeVars, scopeVars, valeVars, decoVars, clawVars,
                   conf_beartype>>

\* visit_FunctionDef(node): returns a method as is; decorates a typed
\* function; calls generic_visit() on a function.
VisitFunctionDef ==
    /\ AtChild
    /\ module_body[node_cursor].kind = "FunctionDef"
    /\ IF IsMethod(node_stack_beartype)
       THEN /\ module_body' =
                  [module_body EXCEPT ![node_cursor].seen =
                      StackIds(node_stack_beartype)]
            /\ node_cursor' = NextSibling(module_body, node_cursor)
            /\ UNCHANGED node_stack_beartype
       ELSE /\ module_body' =
                  [module_body EXCEPT ![node_cursor] =
                      [(IF @.typed THEN decorate_node(@, conf_beartype)
                        ELSE @) EXCEPT
                          !.seen = StackIds(node_stack_beartype)]]
            /\ node_stack_beartype' =
                  node_stack_append(node_stack_beartype,
                                    module_body[node_cursor])
            /\ node_cursor' = node_cursor + 1
    /\ UNCHANGED <<factoryVars, codeVars, scopeVars, valeVars, decoVars, clawVars,
                   conf_beartype>>

\* visit_AnnAssign(node): returns the node as is, or the node followed by
\* the statement checking it, which is not visited.
VisitAnnAssign ==
    /\ AtChild
    /\ module_body[node_cursor].kind = "AnnAssign"
    /\ LET node == [module_body[node_cursor] EXCEPT
                       !.seen = StackIds(node_stack_beartype)]
       IN IF IgnoresAnnAssign(conf_beartype, node)
          THEN /\ module_body' = [module_body EXCEPT ![node_cursor] = node]
               /\ node_cursor' = node_cursor + 1
          ELSE /\ module_body' =
                     SubSeq(module_body, 1, node_cursor - 1) \o
                     <<node, node_func(conf_beartype, node)>> \o
                     SubSeq(module_body, node_cursor + 1, Len(module_body))
               /\ node_cursor' = node_cursor + 2
    /\ UNCHANGED <<factoryVars, codeVars, scopeVars, valeVars, decoVars, clawVars,
                   conf_beartype, node_stack_beartype>>

\* generic_visit(node) of a node no other visitor handles: pushes the node
\* before its children are visited.
GenericVisit ==
    /\ AtChild
    /\ module_body[node_cursor].kind \notin
          {"ClassDef", "FunctionDef", "AnnAssign"}
    /\ module_body' =
          [module_body EXCEPT ![node_cursor].seen =
              StackIds(node_stack_beartype)]
    /\ node_stack_beartype' =
          node_stack_append(node_stack_beartype, module_body[node_cursor])
    /\ node_cursor' = node_cursor + 1
    /\ UNCHANGED <<factoryVars, codeVars, scopeVars, valeVars, decoVars, clawVars,
                   conf_beartype>>

\* self._node_stack_beartype.pop(): every child of the node on the top of
\* the stack was visited.
GenericVisitReturn ==
    /\ node_stack_beartype # <<>>
    /\ ~AtChild
    /\ node_stack_beartype' =
          SubSeq(node_stack_beartype, 1, Len(node_stack_beartype) - 1)
    /\ UNCHANGED <<factoryVars, codeVars, scopeVars, valeVars, decoVars, clawVars,
                   conf_beartype, module_body, node_cursor>>

NextAst ==
    \/ VisitModule
    \/ VisitClassDef
    \/ VisitFunctionDef
    \/ VisitAnnAssign
    \/ GenericVisit
    \/ GenericVisitReturn

SpecAst == Init /\ [][NextAst]_vars


\* ------------------------------------------------------------- properties
InTrace(t, step) == \E i \in DOMAIN trace[t] : trace[t][i] = step

IsPrefix(s1, s2) ==
    /\ Len(s1) <= Len(s2)
    /\ \A i \in DOMAIN s1 : s1[i] = s2[i]

Returned(i) == history[i].status = "returned"

C2_IgnorableShortCircuit ==
    \A t \in Threads :
        (InTrace(t, "ignorable") /\ is_hint_ignorable(hint[t])) =>
            /\ outcome[t].status \in {"returning", "returned"}
            /\ outcome[t].checker = func_checker_ignorable
            /\ \A pith \in Piths, r \in RandomInts :
                  RunChecker(outcome[t].checker.code, pith, r).ret = "True"
            /\ ~InTrace(t, "code")
            /\ ~InTrace(t, "name")
            /\ ~InTrace(t, "make_func")
            /\ code_check[t] = NoCode
            /\ func_checker_name[t] = NoName
            /\ \A i \in DOMAIN funcs_made :
                  funcs_made[i] # outcome[t].checker

C2_Witness ==
    \E t \in Threads :
        /\ pc[t] = "idle"
        /\ InTrace(t, "ignorable")
        /\ is_hint_ignorable(hint[t])
        /\ outcome[t].status = "returned"

\* C3: a request whose compiled check carries relative forward references
\* fails with the forward reference exception: it generates no name, no
\* signature and no function, and returns no checker.
C3_ForwardRefsRejected ==
    \A t \in Threads :
        (InTrace(t, "refs") /\ code_check[t].hint_refs_type_basename # <<>>) =>
            /\ pc[t] \in {"except", "idle"}
            /\ exc_raised[t].kind = "BeartypeDecorHintForwardRefException"
            /\ ~InTrace(t, "name")
            /\ ~InTrace(t, "signature")
            /\ ~InTrace(t, "make_func")
            /\ func_checker_name[t] = NoName
            /\ outcome[t].checker = NoChecker
            /\ pc[t] = "idle" =>
                  /\ outcome[t].status = "raised"
                  /\ outcome[t].exc.kind =
                        "BeartypeDecorHintForwardRefException"
            /\ \A m \in memo : m.key # req[t]

C3_Witness ==
    \E t \in Threads :
        /\ pc[t] = "idle"
        /\ code_check[t].hint_refs_type_basename # <<>>
        /\ outcome[t].status = "raised"
        /\ outcome[t].exc.kind = "BeartypeDecorHintForwardRefException"

StepOrder ==
    <<"conf", "sanify", "ignorable", "code", "refs", "name", "signature",
      "make_func", "memoize">>

\* C4: the steps of a request run in the fixed order validate, sanitize,
\* ignorable test, compile, forward reference check, name, signature,
\* make_func, memoize (an ignorable hint passing from the ignorable test
\* to memoize); a step that fails is the last one; and a request whose
\* configuration is not a configuration fails with the configuration
\* exception having run no other step.
C4_StepOrder ==
    \A t \in Threads :
        /\ \/ IsPrefix(trace[t], StepOrder)
           \/ /\ is_hint_ignorable(hint[t])
              /\ trace[t] = <<"conf", "sanify", "ignorable", "memoize">>
        /\ exc_raised[t] # NoExc => pc[t] \in {"except", "idle"}
        /\ (trace[t] # <<>> /\ ~req[t].conf.is_conf) =>
              /\ trace[t] = <<"conf">>
              /\ hint[t] = req[t].hint
              /\ code_check[t] = NoCode
              /\ exc_raised[t].kind = "BeartypeConfException"
              /\ pc[t] = "idle" =>
                    /\ outcome[t].status = "raised"
                    /\ outcome[t].exc.kind = "BeartypeConfException"

C4_Witness ==
    /\ \E t \in Threads : pc[t] = "idle" /\ trace[t] = StepOrder
    /\ \E t \in Threads :
          /\ pc[t] = "idle"
          /\ ~req[t].conf.is_conf
          /\ outcome[t].exc.kind = "BeartypeConfException"


C9_ExceptionsPropagate ==
    \A t \in Threads :
        exc_raised[t] # NoExc =>
            /\ pc[t] \in {"except", "idle"}
            /\ outcome[t].checker = NoChecker
            /\ outcome[t].status \in {"none", "raised"}
            /\ pc[t] = "idle" =>
                  /\ outcome[t].status = "raised"
                  /\ outcome[t].exc.kind = exc_raised[t].kind
                  /\ Len(outcome[t].exc.msg) = Len(exc_raised[t].msg)
                  /\ \A i \in DOMAIN exc_raised[t].msg :
                        outcome[t].exc.msg[i] =
                            IF exc_raised[t].msg[i] = EXCEPTION_PLACEHOLDER
                            THEN exception_prefix
                            ELSE exc_raised[t].msg[i]
                  /\ \A i \in DOMAIN history :
                        history[i].key = req[t] /\ history[i].status = "raised"
                           => history[i].checker = NoChecker

C9_Witness ==
    \E t \in Threads :
        /\ pc[t] = "idle"
        /\ HasPlaceholder(exc_raised[t].msg)
        /\ outcome[t].status = "raised"
        /\ ~HasPlaceholder(outcome[t].exc.msg)

\* A thread holds a function name it has generated until its request ends.
HoldsName(t) == pc[t] \in {"signature", "make_func"}

UniqueNames ==
    /\ \A i, j \in DOMAIN funcs_made :
          i # j => funcs_made[i].name # funcs_made[j].name
    /\ \A i \in DOMAIN funcs_made :
          funcs_made[i].name[2] < func_checker_name_counter
    /\ \A t \in Threads :
          HoldsName(t) =>
              /\ func_checker_name[t][2] < func_checker_name_counter
              /\ \A i \in DOMAIN funcs_made :
                    funcs_made[i].name # func_checker_name[t]
              /\ \A u \in Threads \ {t} :
                    HoldsName(u) =>
                        func_checker_name[u] # func_checker_name[t]

\* C10: the function name counter never decreases, each name generated
\* takes the current integer and advances the counter, and no two
\* functions, made or being made by requests running in different threads,
\* have the same name.
C10_CounterUnique ==
    [][/\ func_checker_name_counter' >= func_checker_name_counter
       /\ \A t \in Threads :
             (pc[t] = "name" /\ pc'[t] # "name") =>
                 /\ func_checker_name'[t] =
                       <<FUNC_CHECKER_NAME_PREFIX, func_checker_name_counter>>
                 /\ func_checker_name_counter' > func_checker_name_counter
       /\ UniqueNames']_vars

C10_Witness ==
    \E t, u \in Threads :
        /\ t # u
        /\ HoldsName(t) /\ HoldsName(u)
        /\ func_checker_name[t] # func_checker_name[u]

\* ------------------------------------------- properties of generated code
RaiserFactories ==
    {"make_code_raiser_func_pith_check",
     "make_code_raiser_func_pep484_noreturn_check",
     "make_code_raiser_hint_object_check"}

HintRaiserFactories ==
    {"make_code_raiser_func_pith_check",
     "make_code_raiser_hint_object_check"}

\* Call-site kind of the last snippet built.
CallSite ==
    CASE gen.factory = "make_code_raiser_hint_object_check" -> "None"
      [] gen.factory = "make_code_raiser_func_pep484_noreturn_check" -> "False"
      [] OTHER -> gen.is_param

\* The one switch of a configuration that belongs to that call-site kind.
SiteSwitch(conf) ==
    CASE CallSite = "None" -> conf.is_violation_door_warn
      [] CallSite = "True" -> conf.is_violation_param_warn
      [] CallSite = "False" -> conf.is_violation_return_warn

\* The snippet handling the violation in a generated raiser.
Handling(code) == code.func_code[Len(code.func_code)]

\* The last factory call repeated under another configuration.
Rebuilt(conf) ==
    CodeOf(gen.factory, gen.hint, conf, gen.cls_stack, gen.is_param)

\* C5: the handling code of a raiser is selected by the one switch of its
\* call-site kind (free-standing, parameter, return); the hint-object
\* factory reads the free-standing switch and the noreturn factory the
\* return switch; the two other switches never change the selection.
C5_SwitchByCallSite ==
    gen.factory \in RaiserFactories =>
        /\ Handling(gen.code).snip =
              IF SiteSwitch(gen.conf)
              THEN CODE_WARN_VIOLATION ELSE CODE_RAISE_VIOLATION
        /\ \A conf \in Confs :
              SiteSwitch(conf) = SiteSwitch(gen.conf) =>
                  Handling(Rebuilt(conf)) = Handling(gen.code)

C5_Witness ==
    /\ gen.factory = "make_code_raiser_func_pith_check"
    /\ gen.is_param = "True"
    /\ gen.conf.is_violation_param_warn
    /\ ~gen.conf.is_violation_door_warn
    /\ ~gen.conf.is_violation_return_warn
    /\ Handling(gen.code).snip = CODE_WARN_VIOLATION

\* The pith of the last call satisfies the hint of the last snippet, for
\* the random integer drawn by that call.
Satisfied ==
    EvalExpr(make_check_expr(gen.hint, gen.conf, gen.cls_stack).code_expr,
             run.pith, run.random_int)

\* C6: called on a value violating its hint, a raiser either warns and
\* returns normally or raises, never both and never neither: it warns when
\* the switch of its call-site kind selects warning, and it raises under
\* the default configuration.
C6_WarnOrRaise ==
    (run # NoCall /\ gen.factory \in HintRaiserFactories /\ ~Satisfied) =>
        /\ run.result.warned + run.result.raised = 1
        /\ SiteSwitch(gen.conf) =>
              /\ run.result.warned = 1
              /\ run.result.raised = 0
              /\ run.result.ret = "None"
        /\ (/\ ~gen.conf.is_violation_door_warn
            /\ ~gen.conf.is_violation_param_warn
            /\ ~gen.conf.is_violation_return_warn) =>
              /\ run.result.raised = 1
              /\ run.result.warned = 0
              /\ run.result.ret = "raise"

C6_Witness ==
    /\ run # NoCall
    /\ gen.factory = "make_code_raiser_func_pith_check"
    /\ gen.is_param = "True"
    /\ gen.conf.is_violation_param_warn
    /\ ~Satisfied
    /\ run.result.warned = 1
    /\ run.result.raised = 0

\* C7: a raiser generated from a hint calls the violation getter only when
\* the check expression is false of the value; on a value satisfying the
\* hint it returns without getting a violation, raising or warning.
C7_GetterOnlyOnFailure ==
    (run # NoCall /\ gen.factory \in HintRaiserFactories) =>
        /\ run.result.get_violation = IF Satisfied THEN 0 ELSE 1
        /\ Satisfied =>
              /\ run.result.ret = "None"
              /\ run.result.warned = 0
              /\ run.result.raised = 0

C7_Witness ==
    /\ run # NoCall
    /\ gen.factory = "make_code_raiser_hint_object_check"
    /\ Satisfied
    /\ run.pith.type = "list"
    /\ run.result.get_violation = 0
    /\ run.result.ret = "None"

\* ------------------------------------------------- concurrent requests
\* Keys a made function is held for: the keys it is memoized under and the
\* keys of the requests about to memoize it.
KeysOf(func) ==
    {m.key : m \in {n \in memo : n.checker = func}} \cup
    {req[t] : t \in {u \in Threads : /\ pc[u] \in {"reissue", "memoize"}
                                      /\ outcome[u].checker = func}}

\* C11: the memo lookup and the computation and insertion that follow a
\* miss are mutually exclusive: a request past its lookup holds the guard of
\* its factory, no other request of that factory is past its lookup, and
\* its key is still absent from the memo; so a function is made at most
\* once for a key, and all the callers of a key receive the same artifact.
C11_AtMostOncePerKey ==
    /\ \A t \in Threads :
          pc[t] # "idle" =>
              /\ memo_lock[req[t].kind] = t
              /\ ~MemoHas(req[t])
              /\ \A u \in Threads \ {t} :
                    pc[u] # "idle" => req[u].kind # req[t].kind
    /\ \A i \in DOMAIN funcs_made :
          /\ Cardinality(KeysOf(funcs_made[i])) = 1
          /\ \A j \in DOMAIN funcs_made :
                i # j => KeysOf(funcs_made[i]) \cap KeysOf(funcs_made[j]) = {}
    /\ \A m, n \in memo : m.key = n.key => m = n
    /\ \A t, u \in Threads :
          (/\ pc[t] = "idle" /\ pc[u] = "idle"
           /\ outcome[t].status = "returned" /\ outcome[u].status = "returned"
           /\ req[t] = req[u]) =>
              outcome[t].checker = outcome[u].checker

C11_Witness ==
    \E t, u \in Threads :
        /\ t # u
        /\ pc[t] = "idle" /\ pc[u] = "idle"
        /\ req[t] = req[u]
        /\ InTrace(t, "make_func") /\ InTrace(t, "memoize")
        /\ trace[u] = <<>>
        /\ outcome[t].status = "returned" /\ outcome[u].status = "returned"
        /\ outcome[u].checker = outcome[t].checker
        /\ outcome[t].checker # func_checker_ignorable
        /\ Len(funcs_made) = 1

\* The snippet getting the violation in a generated raiser.
GetViolation(code) == code.func_code[Len(code.func_code) - 1]

\* C13: a raiser passes the random integer of the call to the violation
\* getter exactly when the scope returned by the expression compiler holds
\* the random bits generator, and otherwise neither the generator nor the
\* random integer argument appears; it passes the class stack exactly when
\* a non-empty class stack was supplied.
C13_RandomIntIffSampling ==
    gen.factory \in HintRaiserFactories =>
        LET expr == make_check_expr(gen.hint, gen.conf, gen.cls_stack)
            args == GetViolation(gen.code).args
        IN
        /\ (CODE_GET_VIOLATION_RANDOM_INT \in args) =
              (ARG_NAME_GETRANDBITS \in expr.func_scope)
        /\ ARG_NAME_GETRANDBITS \notin expr.func_scope =>
              /\ ARG_NAME_GETRANDBITS \notin gen.code.func_scope
              /\ CODE_GET_VIOLATION_RANDOM_INT \notin args
        /\ (CODE_GET_VIOLATION_CLS_STACK \in args) = (gen.cls_stack # <<>>)

C13_Witness ==
    /\ gen.factory = "make_code_raiser_func_pith_check"
    /\ gen.hint = HintInt
    /\ gen.cls_stack # <<>>
    /\ GetViolation(gen.code).args = {CODE_GET_VIOLATION_CLS_STACK}
    /\ ARG_NAME_GETRANDBITS \notin gen.code.func_scope

\* Result of the last snippet built, run on the pith of the last call under
\* another random integer.
Redrawn(random_int) ==
    RunChecker(gen.code.func_code, run.pith, random_int).ret

\* Indices of the items of the pith of the last call that are not ints.
NonInts == {i \in DOMAIN run.pith.items : run.pith.items[i] # "int"}

\* The last call ran the tester of the container hint on a container.
TestedContainer ==
    /\ run # NoCall
    /\ gen.factory = "make_code_tester_check"
    /\ gen.hint = HintListInt
    /\ run.pith.type = "list"

C15_UnionShortCircuit ==
    (run # NoCall /\ gen.hint = HintUnion
                  /\ gen.factory # "make_code_raiser_func_pep484_noreturn_check") =>
        /\ run.result.evaluated # <<>>
        /\ run.result.evaluated[1] = HintInt
        /\ run.pith.type = "int" => run.result.evaluated = <<HintInt>>
        /\ run.pith.type # "int" =>
              run.result.evaluated = <<HintInt, HintListInt>>

C15_Witness ==
    /\ run # NoCall
    /\ gen.hint = HintUnion
    /\ gen.factory = "make_code_tester_check"
    /\ run.pith.type = "int"
    /\ run.result.evaluated = <<HintInt>>
    /\ run.result.ret = "True"

\* ------------------------------------------------ names and their scope
\* Names a snippet refers to other than the root pith and its own locals.
FreeNames(tok) ==
    CASE tok.snip = CODE_CHECK_EXPR ->
            IF /\ tok.strategy = "O1"
               /\ \E i \in DOMAIN tok.arms : IsContainerHint(tok.arms[i])
            THEN {ARG_NAME_GETRANDBITS} ELSE {}
      [] tok.snip = CODE_GET_FUNC_PITH_VIOLATION ->
            {ARG_NAME_GET_VIOLATION, ARG_NAME_CONF} \cup
            (IF CODE_GET_VIOLATION_RANDOM_INT \in tok.args
             THEN {ARG_NAME_GETRANDBITS} ELSE {})
      [] tok.snip = CODE_GET_HINT_OBJECT_VIOLATION ->
            {ARG_NAME_GET_VIOLATION, ARG_NAME_CONF, ARG_NAME_HINT} \cup
            (IF CODE_GET_VIOLATION_RANDOM_INT \in tok.args
             THEN {ARG_NAME_GETRANDBITS} ELSE {})
      [] tok.snip = CODE_WARN_VIOLATION -> {ARG_NAME_WARN}
      [] OTHER -> {}

CodeNames(func_code) ==
    UNION {FreeNames(func_code[i]) : i \in DOMAIN func_code}

\* Names occurring in the code of a validator other than the object
\* placeholder.
TemplateNames(is_valid_code) ==
    {is_valid_code[i] : i \in DOMAIN is_valid_code} \
        {"(", ")", ", ", "{obj}"}

\* C12 (as stated): every name free in the code returned by a code factory
\* or in the code of a validator made by IsArgumentative, other than the
\* root pith placeholder, is a key of the scope returned with it: the
\* getter and the configuration for a raiser, the hint for a hint-object
\* raiser, the warn function when the warn snippet is selected, and every
\* argument name spliced into the call of a validator.
C12_FreeNamesInScope ==
    /\ gen # NoGen =>
          /\ CodeNames(gen.code.func_code) \subseteq gen.code.func_scope
          /\ gen.factory \in RaiserFactories =>
                /\ {ARG_NAME_GET_VIOLATION, ARG_NAME_CONF}
                        \subseteq gen.code.func_scope
                /\ Handling(gen.code).snip = CODE_WARN_VIOLATION =>
                        ARG_NAME_WARN \in gen.code.func_scope
          /\ gen.factory = "make_code_raiser_hint_object_check" =>
                ARG_NAME_HINT \in gen.code.func_scope
    /\ vale.validator # NoValidator =>
          /\ TemplateNames(vale.validator.is_valid_code) \subseteq
                ScopeKeys(vale.validator.is_valid_code_locals)
          /\ \A i \in DOMAIN vale.validator.is_valid_remaining_arg_names :
                vale.validator.is_valid_remaining_arg_names[i] \in
                    ScopeKeys(vale.validator.is_valid_code_locals)

\* ------------------------------------------------------------ validators
IsValidTester(tester) == tester.kind = "python" /\ Len(tester.arg_names) >= 1
IsUnaryTester(tester) == tester.kind = "python" /\ Len(tester.arg_names) = 1

JoinedArgs(arg_names) ==
    [i \in 1 .. 2 * Len(arg_names) |->
        IF i % 2 = 1 THEN ", " ELSE arg_names[i \div 2]]

\* C19: for a callable with parameters p0, p1, ..., pn, IsArgumentative
\* makes a validator whose target argument name is p0, whose remaining
\* argument names are p1, ..., pn and whose code applies the scope name
\* bound to the callable to the object placeholder followed by p1, ...,
\* pn, each once and in order; generate_additional_arg_string() returns
\* the concatenation of ', ' and each name of its list, the empty string
\* for the empty list.
C19_ValidatorShape ==
    /\ \A a \in ArgLists :
          generate_additional_arg_string(a) = JoinedArgs(a)
    /\ (vale.factory = "IsArgumentative" /\ vale.validator # NoValidator) =>
          LET names == vale.args[1].arg_names
              validator == vale.validator
              attr_name == validator.is_valid_code[1]
          IN
          /\ validator.is_valid = vale.args[1]
          /\ validator.is_valid_target_arg_name = names[1]
          /\ validator.is_valid_remaining_arg_names = Tail(names)
          /\ validator.is_valid_code_locals = {<<attr_name, vale.args[1]>>}
          /\ validator.is_valid_code =
                <<attr_name, "(", "{obj}">> \o JoinedArgs(Tail(names)) \o
                <<")">>

C19_Witness ==
    /\ vale.factory = "IsArgumentative"
    /\ vale.validator # NoValidator
    /\ vale.args[1].arg_names = <<"out_list", "in_list", "item">>
    /\ vale.validator.is_valid_target_arg_name = "out_list"
    /\ vale.validator.is_valid_remaining_arg_names = <<"in_list", "item">>
    /\ vale.validator.is_valid_code =
          <<"__beartype_object_is_valid", "(", "{obj}", ", ", "in_list",
            ", ", "item", ")">>

\* ------------------------------------------------- decorated callables
\* Whether a value satisfies a hint: every item of a list of ints is an
\* int.
HintHolds(hint_, pith) ==
    \E i \in DOMAIN UnionMembers(hint_) :
        EvalArm(UnionMembers(hint_)[i], "On", pith, 0)

\* Whether the check made by a call of a wrapper passes.
CheckPasses(wrapper, pith, random_int) ==
    EvalExpr(make_check_expr(wrapper.hint, wrapper.conf, <<>>).code_expr,
             pith, random_int)

IsPublicViolation(exc) == exc # <<>> /\ exc[1] # "_"

SameBehaviour(wrapper, pith, random_int) ==
    \A g \in DecorFuncs :
        (deco[g].hint = wrapper.hint /\ deco[g].conf = wrapper.conf) =>
            WrapperCall(deco[g], pith, random_int) =
                WrapperCall(wrapper, pith, random_int)

C16_WitnessAccepted ==
    /\ wcall # NoWCall
    /\ ~HintHolds(deco[wcall.func].hint, wcall.pith)
    /\ wcall.result.exc = <<>>

\* ----------------------------------------------------------- module loader
\* A call of get_code() no other call overlaps has the beartype variant
\* installed from its entry to its finally clause, and its superclass
\* method names the bytecode file with that variant.
PatchedWhileAlone ==
    \A t \in Threads :
        (InGetCode(t) /\ ~loader[t].overlapped) =>
            /\ cache_from_source = "_cache_from_source_beartype"
            /\ loader[t].at \in {"compile", "finally"} =>
                  /\ loader[t].used = "_cache_from_source_beartype"
                  /\ loader[t].bytecode_path =
                        [optimization |-> <<"-beartype">>,
                         path |-> loader[t].module]

OriginalWhenIdle ==
    (\A t \in Threads : ~InGetCode(t)) =>
        cache_from_source = "cache_from_source_original"

InstalledThenRestored ==
    \A t \in Threads :
        /\ (loader[t].at = "idle" /\ loader'[t].at = "super") =>
              cache_from_source' = "_cache_from_source_beartype"
        /\ (loader[t].at = "finally" /\ loader'[t].at = "idle") =>
              /\ cache_from_source' = "cache_from_source_original"
              /\ loader'[t].result = loader[t].result
        /\ loader[t].at \in {"super", "compile"} =>
              loader'[t].at # "idle"

C21_SafeWithoutLocking ==
    \A t \in Threads :
        /\ loader[t].at \in {"super", "compile"} =>
              cache_from_source = "_cache_from_source_beartype"
        /\ loader[t].at \in {"compile", "finally"} =>
              loader[t].used = "_cache_from_source_beartype"
        /\ loader[t].outside.used # "_cache_from_source_beartype"

\* The name of the bytecode file of a marker, as the original function
\* makes it for a module no beartype loader loads at a level of
\* optimization.
UnbeartypedPath(path, kwargs, optimize) ==
    CallCacheFromSource("cache_from_source_original", path, kwargs, optimize)

\* C22: _cache_from_source_beartype() calls the original function with the
\* marker of the caller, the empty string when the caller passes none,
\* followed by '-beartype' and with the path unchanged; the name of the
\* bytecode file of a beartyped module differs from the name the original
\* function gives the same module for the same arguments at every level
\* of optimization.
C22_BeartypeMarkerAppended ==
    /\ \A path \in LoaderModules, kwargs \in CacheKwargs :
          /\ cache_from_source_beartype(path, kwargs) =
                [optimization |->
                    (IF kwargs = {} THEN <<>>
                     ELSE ScopeGet(kwargs, "optimization")) \o
                    <<"-beartype">>,
                 path |-> path]
          /\ \A optimize \in OptimizeLevels :
                cache_from_source_beartype(path, kwargs) #
                    UnbeartypedPath(path, kwargs, optimize)
    /\ \A t \in Threads :
          /\ loader[t].used = "_cache_from_source_beartype" =>
                /\ loader[t].bytecode_path.path = loader[t].module
                /\ loader[t].bytecode_path.optimization = <<"-beartype">>
                /\ \A optimize \in OptimizeLevels :
                      loader[t].bytecode_path #
                          UnbeartypedPath(loader[t].module, {}, optimize)
          /\ loader[t].outside.used = "_cache_from_source_beartype" =>
                /\ loader[t].outside.bytecode_path.path =
                      loader[t].outside.path
                /\ loader[t].outside.bytecode_path.optimization =
                      KwargsGet(loader[t].outside.kwargs, "optimization",
                                <<>>) \o <<"-beartype">>
                /\ \A optimize \in OptimizeLevels :
                      loader[t].outside.bytecode_path #
                          UnbeartypedPath(loader[t].outside.path,
                                          loader[t].outside.kwargs, optimize)

C22_Witness ==
    /\ loader["t1"].at = "compile"
    /\ loader["t1"].used = "_cache_from_source_beartype"
    /\ loader["t1"].bytecode_path =
          [optimization |-> <<"-beartype">>,
           path |-> "muh_package.muh_module"]
    /\ loader["t2"].outside.used = "_cache_from_source_beartype"
    /\ loader["t2"].outside.kwargs = {<<"optimization", <<"1">>>>}
    /\ loader["t2"].outside.bytecode_path.optimization =
          <<"1", "-beartype">>

\* ------------------------------------------------------ node transformer
Transformed == node_cursor > 0 /\ node_stack_beartype = <<>>
Positions == DOMAIN module_body
IsOriginal(node) == node.id > 0
IsInsertedImport(node) == node.id = 0
IsVisited(node) == node.seen # <<>>

\* Position of the parent of the node at a position, 0 for the module.
ParentOf(at) ==
    LET above == {q \in Positions :
                     q < at /\ module_body[q].depth = module_body[at].depth - 1}
    IN IF above = {} THEN 0 ELSE CHOOSE q \in above : \A r \in above : r <= q

ParentKind(at) ==
    IF ParentOf(at) = 0 THEN "Module" ELSE module_body[ParentOf(at)].kind

ChildrenOf(at) == {q \in Positions : q > at /\ ParentOf(q) = at}

RECURSIVE AncestorIds(_)
AncestorIds(at) ==
    IF ParentOf(at) = 0 THEN <<0>>
    ELSE Append(AncestorIds(ParentOf(at)), module_body[ParentOf(at)].id)

\* The statements of the module before the first statement that is neither
\* the docstring opening the module nor a future import following it.
InPrologue(at) ==
    /\ module_body[at].depth = 1
    /\ IsOriginal(module_body[at])
    /\ \A q \in Positions :
          (q <= at /\ IsOriginal(module_body[q])) =>
              \/ module_body[q].id = 1 /\ module_body[q].kind = "Expr"
              \/ /\ module_body[q].kind = "ImportFrom"
                 /\ module_body[q].name = "__future__"

\* C23 (as stated): in a module whose body is not empty, visit_Module()
\* inserts the three import nodes, of the decorator, the raiser and the
\* claw state in that order, after the docstring of the module and every
\* leading future import and before every other statement, the original
\* statements keeping their order, also when the body holds only a
\* docstring or future imports; a module whose body is empty gets no import
\* node.
C23_ImportsAfterPrologue ==
    node_cursor > 0 =>
        LET imports == {p \in Positions : IsInsertedImport(module_body[p])}
            originals == {p \in Positions : IsOriginal(module_body[p])}
        IN
        IF originals = {} THEN imports = {}
        ELSE
            /\ \E p \in Positions :
                  /\ imports = {p, p + 1, p + 2}
                  /\ module_body[p].name = BEARTYPE_DECORATOR_MODULE_NAME
                  /\ module_body[p + 1].name = BEARTYPE_RAISER_MODULE_NAME
                  /\ module_body[p + 2].name =
                        BEARTYPE_CLAW_STATE_MODULE_NAME
            /\ \A p \in imports, q \in originals :
                  IF InPrologue(q) THEN q < p ELSE p < q
            /\ \A p, q \in originals :
                  p < q => module_body[p].id < module_body[q].id

\* C24: every class node visited is decorated exactly once; a function
\* node whose parent is a class node is never decorated; every other
\* function node visited is decorated exactly once when typed and not at
\* all when untyped, and its children are visited in both cases; no other
\* node is decorated.
C24_DecoratedOnce ==
    \A p \in Positions :
        LET node == module_body[p] IN
        /\ ~IsVisited(node) => node.decorators = 0
        /\ node.kind \notin {"ClassDef", "FunctionDef"} =>
              node.decorators = 0
        /\ (node.kind = "ClassDef" /\ IsVisited(node)) => node.decorators = 1
        /\ (node.kind = "FunctionDef" /\ IsVisited(node)) =>
              IF ParentKind(p) = "ClassDef" THEN node.decorators = 0
              ELSE /\ node.decorators = IF node.typed THEN 1 ELSE 0
                   /\ Transformed =>
                         \A q \in ChildrenOf(p) :
                             IsOriginal(module_body[q]) =>
                                 IsVisited(module_body[q])

C24_Witness ==
    /\ Transformed
    /\ Len(module_body) = 6
    /\ module_body[4].kind = "ClassDef" /\ module_body[4].decorators = 1
    /\ module_body[5].kind = "FunctionDef" /\ module_body[5].typed
    /\ module_body[5].depth = 2
    /\ IsVisited(module_body[5]) /\ module_body[5].decorators = 0
    /\ module_body[6].kind = "FunctionDef" /\ module_body[6].typed
    /\ module_body[6].depth = 1 /\ module_body[6].decorators = 1

\* The statements checking the assignment at a position.
ChecksOf(at) ==
    {q \in Positions : module_body[q].id = 0 - module_body[at].id}

\* C25: visit_AnnAssign() returns the node as is when the configuration
\* disables PEP 526 checking, or the target is no simple name, or no value
\* is assigned; otherwise it returns the assignment followed by one call of
\* the raiser on the target name and the annotation, passing the keyword
\* argument conf if and only if the configuration differs from the default
\* configuration.
C25_CheckFollowsAssignment ==
    \A p \in Positions :
        LET node == module_body[p] IN
        (node.kind = "AnnAssign" /\ IsVisited(node)) =>
            /\ node.decorators = 0 /\ node.args = <<>>
            /\ IF \/ ~conf_beartype.claw_is_pep526
                  \/ ~node.simple
                  \/ ~node.value
               THEN ChecksOf(p) = {}
               ELSE /\ ChecksOf(p) = {p + 1}
                    /\ module_body[p + 1].kind = "Expr"
                    /\ module_body[p + 1].name =
                          BEARTYPE_RAISER_TARGET_ATTR_NAME
                    /\ module_body[p + 1].args =
                          <<<<"target", node.id>>, <<"annotation", node.id>>>>
                    /\ module_body[p + 1].depth = node.depth
                    /\ ("conf" \in
                           {module_body[p + 1].keywords[k] :
                               k \in DOMAIN module_body[p + 1].keywords})
                          <=> conf_beartype # CLAW_CONF_DEFAULT

C25_Witness ==
    /\ Transformed
    /\ conf_beartype = CLAW_CONF_DEFAULT
    /\ Len(module_body) = 7
    /\ module_body[4].kind = "AnnAssign" /\ module_body[4].simple
    /\ module_body[4].value
    /\ module_body[5].name = BEARTYPE_RAISER_TARGET_ATTR_NAME
    /\ module_body[5].keywords = <<>>
    /\ module_body[6].kind = "AnnAssign" /\ ~module_body[6].value
    /\ module_body[7].kind = "AnnAssign" /\ ~module_body[7].simple
    /\ IsVisited(module_body[7])

\* Some assignment is followed by a call passing the configuration.
C25_WitnessConf ==
    \E p \in Positions :
        /\ ChecksOf(p) = {p + 1}
        /\ module_body[p + 1].keywords = <<"conf">>
        /\ conf_beartype.claw_is_pep526
        /\ conf_beartype.is_debug

\* The stack holds the module node and then a chain of nodes of the
\* module, each the parent of the next.
StackIsChain ==
    \A k \in DOMAIN node_stack_beartype :
        IF k = 1 THEN node_stack_beartype[k] = ModuleNode
        ELSE \E p \in Positions :
                /\ StackNode(module_body[p]) = node_stack_beartype[k]
                /\ IsVisited(module_body[p])
                /\ module_body[p].depth = k - 1
                /\ AncestorIds(p) =
                      StackIds(SubSeq(node_stack_beartype, 1, k - 1))

\* A step pushes the node being visited or pops the node pushed last; the
\* pop of the module node, with which the transformation returns, comes
\* after every node of the module and leaves the stack empty.
PushOrPop ==
    \/ UNCHANGED node_stack_beartype
    \/ /\ node_cursor \in Positions
       /\ node_stack_beartype' =
             Append(node_stack_beartype, StackNode(module_body[node_cursor]))
    \/ /\ node_cursor = 0
       /\ node_stack_beartype' = Append(node_stack_beartype, ModuleNode)
    \/ /\ node_stack_beartype # <<>>
       /\ node_stack_beartype =
             Append(node_stack_beartype',
                    node_stack_beartype[Len(node_stack_beartype)])
       /\ node_stack_beartype[Len(node_stack_beartype)] = ModuleNode =>
             /\ node_stack_beartype' = <<>>
             /\ node_cursor > Len(module_body)

\* C26: whenever a visitor runs on a node, the stack holds the chain of the
\* ancestors of that node, the module node first and the parent of the
\* node last; every push of generic_visit() is matched by a pop, so the
\* stack is empty again when the transformation of the module returns.
C26_StackIsAncestors ==
    /\ [](/\ StackIsChain
          /\ \A p \in Positions :
                IsVisited(module_body[p]) =>
                    module_body[p].seen = AncestorIds(p)
          /\ AtChild =>
                StackIds(node_stack_beartype) = AncestorIds(node_cursor))
    /\ [][PushOrPop]_vars

C26_Witness ==
    /\ AtChild
    /\ Len(node_stack_beartype) = 3
    /\ node_stack_beartype[2].kind = "If"
    /\ node_stack_beartype[3].kind = "FunctionDef"
    /\ module_body[node_cursor].kind = "AnnAssign"

\* C27 (as stated): with PEP 526 checking enabled, after the transformation
\* every simple annotated assignment that has a value, wherever it occurs
\* in the module, is followed by a statement checking it, and every typed
\* function and every class, wherever it is defined, was reached by the
\* transformer.
C27_EveryAssignmentChecked ==
    (Transformed /\ conf_beartype.claw_is_pep526) =>
        \A p \in Positions :
            LET node == module_body[p] IN
            /\ (node.kind = "AnnAssign" /\ node.simple /\ node.value) =>
                  ChecksOf(p) = {p + 1}
            /\ (node.kind = "ClassDef" \/
                   (node.kind = "FunctionDef" /\ node.typed)) =>
                  IsVisited(node)

\* ---------------------------------------------------------------- C28
\* Names the expression compiler produced for the hint of the last snippet.
CompilerNames == make_check_expr(gen.hint, gen.conf, gen.cls_stack).func_scope

\* C28: building one checker never changes what another is built from. The
\* scope a tester is synthesized from holds only the names the expression
\* compiler produced for its hint, whatever raiser was built before it for
\* the same hint and configuration; and the scope of a raiser holds the warn
\* function only if the policy of that raiser selected the warn snippet,
\* whatever raisers were built before it from the same compiled check.
C28_ScopeUnsharedByCheckers ==
    /\ gen.factory = "make_code_tester_check"
          => gen.code.func_scope = CompilerNames
    /\ gen.factory \in HintRaiserFactories
          => (ARG_NAME_WARN \in gen.code.func_scope
                 => IsViolationWarn(gen.conf, gen.is_param))

\* ---------------------------------------------------------------- C29
\* The hint a request is compiled from, once sanitized.
SaneHint(key) ==
    sanify_hint_root_statement(key.hint, key.conf, EXCEPTION_PLACEHOLDER).hint

\* A request with a configuration whose sanitized hint is ignorable.
IgnorableRequest(key) ==
    /\ die_unless_conf(key.conf) = NoExc
    /\ is_hint_ignorable(SaneHint(key))

\* A step of the request of thread t.
StepOf(t) ==
    <<pc[t], req[t], trace[t], outcome[t]>>' #
        <<pc[t], req[t], trace[t], outcome[t]>>

\* C29: for an ignorable hint make_func_raiser returns a checker that
\* neither raises nor warns on any value under any configuration, those
\* selecting warnings included; make_func_tester and make_func_raiser return
\* one and the same object for every ignorable hint and every
\* configuration; and no step of such a request changes the function name
\* counter.
C29_IgnorableSingleton ==
    /\ [](\A i \in DOMAIN history :
            (Returned(i) /\ IgnorableRequest(history[i].key)) =>
                /\ history[i].checker = func_checker_ignorable
                /\ \A pith \in Piths, r \in RandomInts :
                      LET result == RunChecker(history[i].checker.code,
                                               pith, r) IN
                      /\ result.raised = 0
                      /\ result.warned = 0
                /\ \A j \in DOMAIN history :
                      (Returned(j) /\ IgnorableRequest(history[j].key)) =>
                          history[j].checker = history[i].checker)
    /\ [][\A t \in Threads :
             (StepOf(t) /\ IgnorableRequest(req'[t])) =>
                 func_checker_name_counter' = func_checker_name_counter]_vars

\* A raiser requested for a deprecated alias of an ignorable hint under a
\* configuration selecting warnings and a tester requested for another
\* ignorable hint have both been returned.
C29_Witness ==
    \E i, j \in DOMAIN history :
        /\ Returned(i) /\ Returned(j)
        /\ history[i].key.kind = "raiser"
        /\ history[i].key.conf.is_violation_door_warn
        /\ history[j].key.kind = "tester"
        /\ history[i].key.hint # history[j].key.hint
        /\ IgnorableRequest(history[i].key)
        /\ IgnorableRequest(history[j].key)
        /\ history[i].checker = func_checker_ignorable
        /\ history[j].checker = func_checker_ignorable

====
